---- MODULE Spec2Model ----
(***************************************************************************)
(* TUI-Kanban: the board state machine (src/src/app.rs) and the            *)
(* persistence / migration pipeline (src/src/storage.rs).                  *)
(*                                                                         *)
(* Specifications: SpecLoad starts the process on every combination of     *)
(* contents of the three files, with writes that can fail; Spec starts it  *)
(* on files the program wrote, with a disk that takes every write, and     *)
(* runs the keys of the board view; SpecProjects runs the project list,    *)
(* SpecAddTask the input of a new task, SpecTask the task detail view,     *)
(* SpecScroll a column longer than the window, SpecSave the keys that save *)
(* on a disk that can fail, SpecColumns the adding, deleting and           *)
(* reordering of columns, SpecModes the keys that enter and leave the      *)
(* eleven modes, with the renaming of a column, and SpecMoves the adding,  *)
(* moving and deleting of tasks on two projects.                           *)
(*                                                                         *)
(* Text is a sequence of one-character strings, so that push / pop of the  *)
(* input buffer and the slug conversion act on characters.  Indices are    *)
(* 0-based as in the source; a Vec v is a sequence, v[i] is v[i + 1].      *)
(***************************************************************************)
EXTENDS Integers, Sequences, FiniteSets, TLC

VARIABLES
    app,              \* struct App (app.rs 5-17) of the running process
    status,           \* "boot" | "run" | "exited" | "panic": the process
    config_file,      \* <config>/tui-kanban/projects.json
    old_omarchy_file, \* <config>/omarchy-kanban/projects.json
    old_board_file,   \* <config>/omarchy-kanban/board.json
    loaded,           \* history: what the most recent load_projects did
    last,             \* history: the most recent intent and its save
    build,            \* "unknown" | "debug" | "release": overflow checks
    faults            \* I/O failures the file system will still produce

vars == <<app, status, config_file, old_omarchy_file, old_board_file,
          loaded, last, build, faults>>

(***************************************************************************)
(* Bounds of the model.                                                    *)
(***************************************************************************)
MaxFaults == 1     \* most failing writes of one run
MaxBuf == 1        \* most characters typed into the input buffer
MaxTasks == 3      \* projects with this many tasks in all take no new task
MaxProjects == 3   \* a list with this many projects takes no new project
MaxDigit == 2      \* the digit keys 1..MaxDigit
LongColumn == 7    \* tasks of the column that does not fit the window
MaxColumns == 3    \* a board with this many columns takes no new column

(***************************************************************************)
(* Board model: Task, BoardColumn, Board, Project.                         *)
(***************************************************************************)
NewTask(title) == [title |-> title, tags |-> <<>>, description |-> <<>>]

Contains(seq, x) == \E i \in 1..Len(seq) : seq[i] = x

\* Mutant: the tag is pushed whether the task has it or not.
add_tag_NoDedup(task, tag) == [task EXCEPT !.tags = Append(@, tag)]

add_tag(task, tag) ==
    IF ~Contains(task.tags, tag)
    THEN [task EXCEPT !.tags = Append(@, tag)]
    ELSE task

NewBoardColumn(id, name) == [id |-> id, name |-> name, tasks |-> <<>>]

S_todo == <<"t", "o", "d", "o">>
S_in_progress == <<"i", "n", "_", "p", "r", "o", "g", "r", "e", "s", "s">>
S_testing == <<"t", "e", "s", "t", "i", "n", "g">>
S_done == <<"d", "o", "n", "e">>
S_ToDo == <<"T", "o", " ", "D", "o">>
S_InProgress == <<"I", "n", " ", "P", "r", "o", "g", "r", "e", "s", "s">>
S_Testing == <<"T", "e", "s", "t", "i", "n", "g">>
S_Done == <<"D", "o", "n", "e">>
S_Default == <<"D", "e", "f", "a", "u", "l", "t">>

\* Board::new(): the four default columns, all empty.
BoardNew ==
    [columns |-> << NewBoardColumn(S_todo, S_ToDo),
                    NewBoardColumn(S_in_progress, S_InProgress),
                    NewBoardColumn(S_testing, S_Testing),
                    NewBoardColumn(S_done, S_Done) >>]

ProjectNew(name) == [name |-> name, board |-> BoardNew]

\* Board::get_column(index): Some(column) in range, None otherwise.
None == [some |-> FALSE]
Some(v) == [some |-> TRUE, val |-> v]
get_column(board, index) ==
    IF index < Len(board.columns) THEN Some(board.columns[index + 1]) ELSE None

RemoveAt(seq, i) == \* Vec::remove(i), 0-based, i < len
    [k \in 1..(Len(seq) - 1) |-> IF k <= i THEN seq[k] ELSE seq[k + 1]]

Swap(seq, i, j) == \* slice::swap(i, j), 0-based
    [seq EXCEPT ![i + 1] = seq[j + 1], ![j + 1] = seq[i + 1]]

(***************************************************************************)
(* Files and JSON documents.  A file is absent, corrupt (it exists but is  *)
(* unreadable or not JSON), or holds a JSON document: an array of items or *)
(* one object.  A JSON object is a record; serde ignores unknown keys and  *)
(* rejects an object that lacks a key of the struct.                       *)
(***************************************************************************)
Absent == [kind |-> "absent"]
Corrupt == [kind |-> "corrupt"]
Arr(items) == [kind |-> "array", items |-> items]
Obj(obj) == [kind |-> "object", obj |-> obj]

Err == [ok |-> FALSE]
Ok(v) == [ok |-> TRUE, val |-> v]

HasKeys(obj, keys) == keys \subseteq DOMAIN obj

\* Serialize (serde derive) of Task, BoardColumn, Board, Project.
TaskToJson(t) ==
    [title |-> t.title, tags |-> t.tags, description |-> t.description]
TasksToJson(ts) == [k \in 1..Len(ts) |-> TaskToJson(ts[k])]
ColumnToJson(c) == [id |-> c.id, name |-> c.name, tasks |-> TasksToJson(c.tasks)]
BoardToJson(b) ==
    [columns |-> [j \in 1..Len(b.columns) |-> ColumnToJson(b.columns[j])]]
ProjectToJson(p) == [name |-> p.name, board |-> BoardToJson(p.board)]
ProjectsToJson(ps) == Arr([i \in 1..Len(ps) |-> ProjectToJson(ps[i])])

\* Serialize of the fixed-four-field board of the two older versions.
LegacyBoardToJson(b) ==
    [todo |-> TasksToJson(b.todo), in_progress |-> TasksToJson(b.in_progress),
     testing |-> TasksToJson(b.testing), done |-> TasksToJson(b.done)]
LegacyProjectToJson(p) == [name |-> p.name, board |-> LegacyBoardToJson(p.board)]

\* omarchy-kanban save_board: the document the oldest version writes.
save_board(board) == Obj(LegacyBoardToJson(board))

\* Deserialize (serde derive).
TaskJsonOk(j) == HasKeys(j, {"title", "tags", "description"})
TasksJsonOk(js) == \A k \in 1..Len(js) : TaskJsonOk(js[k])
TaskFromJson(j) ==
    [title |-> j.title, tags |-> j.tags, description |-> j.description]
TasksFromJson(js) == [k \in 1..Len(js) |-> TaskFromJson(js[k])]

ColumnJsonOk(j) == HasKeys(j, {"id", "name", "tasks"}) /\ TasksJsonOk(j.tasks)
ColumnFromJson(j) ==
    [id |-> j.id, name |-> j.name, tasks |-> TasksFromJson(j.tasks)]
BoardJsonOk(j) ==
    /\ HasKeys(j, {"columns"})
    /\ \A k \in 1..Len(j.columns) : ColumnJsonOk(j.columns[k])
BoardFromJson(j) ==
    [columns |-> [k \in 1..Len(j.columns) |-> ColumnFromJson(j.columns[k])]]
ProjectJsonOk(j) == HasKeys(j, {"name", "board"}) /\ BoardJsonOk(j.board)
ProjectFromJson(j) == [name |-> j.name, board |-> BoardFromJson(j.board)]

\* serde_json::from_str::<Vec<Project>>
ParseProjects(doc) ==
    IF doc.kind = "array" /\ \A i \in 1..Len(doc.items) : ProjectJsonOk(doc.items[i])
    THEN Ok([i \in 1..Len(doc.items) |-> ProjectFromJson(doc.items[i])])
    ELSE Err

LegacyBoardJsonOk(j) ==
    /\ HasKeys(j, {"todo", "in_progress", "testing", "done"})
    /\ TasksJsonOk(j.todo) /\ TasksJsonOk(j.in_progress)
    /\ TasksJsonOk(j.testing) /\ TasksJsonOk(j.done)
LegacyBoardFromJson(j) ==
    [todo |-> TasksFromJson(j.todo), in_progress |-> TasksFromJson(j.in_progress),
     testing |-> TasksFromJson(j.testing), done |-> TasksFromJson(j.done)]
LegacyProjectJsonOk(j) ==
    HasKeys(j, {"name", "board"}) /\ LegacyBoardJsonOk(j.board)
LegacyProjectFromJson(j) ==
    [name |-> j.name, board |-> LegacyBoardFromJson(j.board)]

\* serde_json::from_str::<Vec<LegacyProject>>
ParseLegacyProjects(doc) ==
    IF /\ doc.kind = "array"
       /\ \A i \in 1..Len(doc.items) : LegacyProjectJsonOk(doc.items[i])
    THEN Ok([i \in 1..Len(doc.items) |-> LegacyProjectFromJson(doc.items[i])])
    ELSE Err

\* serde_json::from_str::<LegacyBoard>
ParseLegacyBoard(doc) ==
    IF doc.kind = "object" /\ LegacyBoardJsonOk(doc.obj)
    THEN Ok(LegacyBoardFromJson(doc.obj))
    ELSE Err

(***************************************************************************)
(* Persistence gateway (storage.rs).                                       *)
(***************************************************************************)
\* Mutant: the testing and done fields land in each other's column.
BoardFromLegacy_Swapped(legacy_board) ==
    [columns |-> <<
        [id |-> S_todo, name |-> S_ToDo, tasks |-> legacy_board.todo],
        [id |-> S_in_progress, name |-> S_InProgress,
         tasks |-> legacy_board.in_progress],
        [id |-> S_testing, name |-> S_Testing, tasks |-> legacy_board.done],
        [id |-> S_done, name |-> S_Done, tasks |-> legacy_board.testing] >>]

\* impl From<LegacyBoard> for Board
BoardFromLegacy(legacy_board) ==
    [columns |-> <<
        [id |-> S_todo, name |-> S_ToDo, tasks |-> legacy_board.todo],
        [id |-> S_in_progress, name |-> S_InProgress,
         tasks |-> legacy_board.in_progress],
        [id |-> S_testing, name |-> S_Testing, tasks |-> legacy_board.testing],
        [id |-> S_done, name |-> S_Done, tasks |-> legacy_board.done] >>]

\* impl From<LegacyProject> for Project
ProjectFromLegacy(legacy_project) ==
    [name |-> legacy_project.name, board |-> BoardFromLegacy(legacy_project.board)]

\* Mutant: only the first project is written.
save_projects_FirstOnly(projects) ==
    ProjectsToJson(IF Len(projects) > 1 THEN <<projects[1]>> ELSE projects)

\* save_projects: the document written to the current-format path.
save_projects(projects) == ProjectsToJson(projects)

\* fs::write(path, json) is File::create (truncate) then write_all: it
\* succeeds, fails before the file is touched, or fails after truncation and
\* leaves a cut document, which is no JSON.
WriteOutcomes(n) == IF n > 0 THEN {"ok", "denied", "partial"} ELSE {"ok"}
Written(file, doc, outcome) ==
    CASE outcome = "ok" -> doc
      [] outcome = "denied" -> file
      [] outcome = "partial" -> Corrupt

\* load_projects: the projects returned, the step of the cascade that
\* produced them, and whether save_projects was called on them.
LoadResult(projects, step, save) ==
    [projects |-> projects, step |-> step, save |-> save]

\* Mutant: the intermediate file is tried before the current-format file.
load_projects_LegacyFirst(path, old_omarchy_path, old_board_path) ==
    LET new == ParseProjects(path)
        mid == ParseLegacyProjects(old_omarchy_path)
        old == ParseLegacyBoard(old_board_path)
    IN  IF old_omarchy_path.kind # "absent" /\ mid.ok
        THEN LoadResult([i \in 1..Len(mid.val) |-> ProjectFromLegacy(mid.val[i])],
                        2, TRUE)
        ELSE IF path.kind # "absent" /\ new.ok
        THEN LoadResult(new.val, 1, FALSE)
        ELSE IF old_board_path.kind # "absent" /\ old.ok
        THEN LoadResult(<< [name |-> S_Default, board |-> BoardFromLegacy(old.val)] >>,
                        3, TRUE)
        ELSE LoadResult(<< ProjectNew(S_Default) >>, 4, FALSE)

\* Mutant: a current-format file that does not parse ends the cascade.
load_projects_CorruptIsFatal(path, old_omarchy_path, old_board_path) ==
    LET new == ParseProjects(path)
        mid == ParseLegacyProjects(old_omarchy_path)
        old == ParseLegacyBoard(old_board_path)
    IN  IF path.kind # "absent" /\ new.ok
        THEN LoadResult(new.val, 1, FALSE)
        ELSE IF path.kind # "absent"
        THEN LoadResult(<< ProjectNew(S_Default) >>, 4, FALSE)
        ELSE IF old_omarchy_path.kind # "absent" /\ mid.ok
        THEN LoadResult([i \in 1..Len(mid.val) |-> ProjectFromLegacy(mid.val[i])],
                        2, TRUE)
        ELSE IF old_board_path.kind # "absent" /\ old.ok
        THEN LoadResult(<< [name |-> S_Default, board |-> BoardFromLegacy(old.val)] >>,
                        3, TRUE)
        ELSE LoadResult(<< ProjectNew(S_Default) >>, 4, FALSE)

\* Mutant: step 3 wraps a new board instead of the converted one.
load_projects_Step3NewBoard(path, old_omarchy_path, old_board_path) ==
    LET new == ParseProjects(path)
        mid == ParseLegacyProjects(old_omarchy_path)
        old == ParseLegacyBoard(old_board_path)
    IN  IF path.kind # "absent" /\ new.ok
        THEN LoadResult(new.val, 1, FALSE)
        ELSE IF old_omarchy_path.kind # "absent" /\ mid.ok
        THEN LoadResult([i \in 1..Len(mid.val) |-> ProjectFromLegacy(mid.val[i])],
                        2, TRUE)
        ELSE IF old_board_path.kind # "absent" /\ old.ok
        THEN LoadResult(<< ProjectNew(S_Default) >>, 3, TRUE)
        ELSE LoadResult(<< ProjectNew(S_Default) >>, 4, FALSE)

load_projects(path, old_omarchy_path, old_board_path) ==
    LET new == ParseProjects(path)
        mid == ParseLegacyProjects(old_omarchy_path)
        old == ParseLegacyBoard(old_board_path)
    IN  IF path.kind # "absent" /\ new.ok
        THEN LoadResult(new.val, 1, FALSE)
        ELSE IF old_omarchy_path.kind # "absent" /\ mid.ok
        THEN LoadResult([i \in 1..Len(mid.val) |-> ProjectFromLegacy(mid.val[i])],
                        2, TRUE)
        ELSE IF old_board_path.kind # "absent" /\ old.ok
        THEN LoadResult(<< [name |-> S_Default, board |-> BoardFromLegacy(old.val)] >>,
                        3, TRUE)
        ELSE LoadResult(<< ProjectNew(S_Default) >>, 4, FALSE)

(***************************************************************************)
(* App state machine (app.rs).  A method is an operator from the App it    *)
(* is called on to its result: the App it leaves, whether it called        *)
(* save(), whether it panicked, and whether an unsigned subtraction        *)
(* underflowed on the way (a panic with overflow checks, a wrap without).  *)
(***************************************************************************)
Normal == "Normal"
AddingTask == "AddingTask"
AddingTag == "AddingTag"
ViewingTask == "ViewingTask"
EditingTitle == "EditingTitle"
EditingDescription == "EditingDescription"
ViewingHelp == "ViewingHelp"
ProjectList == "ProjectList"
AddingProject == "AddingProject"
AddingColumn == "AddingColumn"
RenamingColumn == "RenamingColumn"

\* App::new() on the projects load_projects returned.
AppNewState(projects) ==
    [projects |-> projects,
     current_project |-> 0,
     selected_project_index |-> 0,
     selected_column |-> 0,
     selected_index |-> 0,
     scroll_offset |-> 0,
     visible_items |-> 5,
     should_quit |-> FALSE,
     input_mode |-> Normal,
     input_buffer |-> <<>>,
     focused_field |-> "Title"]

Ret(a) == [app |-> a, save |-> FALSE, panic |-> FALSE, ovf |-> FALSE]
Saved(a) == [app |-> a, save |-> TRUE, panic |-> FALSE, ovf |-> FALSE]
Panic(a) == [app |-> a, save |-> FALSE, panic |-> TRUE, ovf |-> FALSE]

\* ui::draw at the top of every iteration of run_app: the board view draws
\* the header with project_name(), which indexes projects[current_project].
DrawPanics(a) ==
    /\ a.input_mode \notin {ViewingTask, EditingTitle, EditingDescription,
                            ViewingHelp, ProjectList, AddingProject}
    /\ a.current_project >= Len(a.projects)

NoLoad == [step |-> 0, save |-> FALSE, outcome |-> "none"]
NoIntent == [op |-> "none", save |-> FALSE, outcome |-> "none"]

\* The overflow-check setting of the binary is fixed, and shows at the first
\* underflow.
BuildChoices == IF build = "unknown" THEN {TRUE, FALSE} ELSE {build = "debug"}

\* One iteration of run_app that handles one key: draw, then the method the
\* key is bound to, with result r computed under overflow checks oc.
Apply(op, r, oc) ==
    /\ status = "run"
    /\ IF DrawPanics(app)
       THEN /\ status' = "panic"
            /\ last' = [op |-> "draw", save |-> FALSE, outcome |-> "none"]
            /\ UNCHANGED <<app, config_file, build, faults>>
       ELSE /\ status' = IF r.panic THEN "panic"
                         ELSE IF r.app.should_quit THEN "exited" ELSE "run"
            /\ app' = IF r.panic THEN app ELSE r.app
            /\ build' = IF r.ovf THEN (IF oc THEN "debug" ELSE "release") ELSE build
            /\ \E outcome \in (IF r.save /\ ~r.panic THEN WriteOutcomes(faults)
                               ELSE {"none"}) :
                /\ config_file' = IF outcome = "none" THEN config_file
                                  ELSE Written(config_file,
                                               save_projects(r.app.projects), outcome)
                /\ faults' = IF outcome \in {"denied", "partial"}
                             THEN faults - 1 ELSE faults
                /\ last' = [op |-> op, save |-> r.save /\ ~r.panic,
                            outcome |-> outcome]
    /\ UNCHANGED <<old_omarchy_file, old_board_file, loaded>>

\* main: the process starts (again) and App::new() calls load_projects.
AppNew ==
    /\ status \in {"boot", "exited", "panic"}
    /\ LET r == load_projects(config_file, old_omarchy_file, old_board_file)
       IN  /\ app' = AppNewState(r.projects)
           /\ \E outcome \in (IF r.save THEN WriteOutcomes(faults) ELSE {"none"}) :
                /\ config_file' = IF outcome = "none" THEN config_file
                                  ELSE Written(config_file,
                                               save_projects(r.projects), outcome)
                /\ faults' = IF outcome \in {"denied", "partial"}
                             THEN faults - 1 ELSE faults
                /\ loaded' = [step |-> r.step, save |-> r.save, outcome |-> outcome]
    /\ status' = "run"
    /\ last' = NoIntent
    /\ UNCHANGED <<old_omarchy_file, old_board_file, build>>

(***************************************************************************)
(* Methods of App.  board() and board_mut() index projects by              *)
(* current_project and panic when it is out of range.                      *)
(***************************************************************************)
BoardOk(a) == a.current_project < Len(a.projects)
board(a) == a.projects[a.current_project + 1].board

\* Mutant: board_mut() hands out the board of the first project.
SetBoard_First(a, b) == [a EXCEPT !.projects[1].board = b]

SetBoard(a, b) == [a EXCEPT !.projects[a.current_project + 1].board = b]

\* .get_column(self.selected_column).map_or(0, |col| col.tasks.len())
column_len(a) ==
    LET col == get_column(board(a), a.selected_column)
    IN  IF col.some THEN Len(col.val.tasks) ELSE 0

\* Mutant: the index is clamped to the length, one past the last task.
clamp_selection_OffByOne(a) ==
    IF column_len(a) = 0
    THEN [a EXCEPT !.selected_index = 0, !.scroll_offset = 0]
    ELSE IF a.selected_index >= column_len(a)
    THEN [a EXCEPT !.selected_index = column_len(a)]
    ELSE a

clamp_selection(a) ==
    IF column_len(a) = 0
    THEN [a EXCEPT !.selected_index = 0, !.scroll_offset = 0]
    ELSE IF a.selected_index >= column_len(a)
    THEN [a EXCEPT !.selected_index = column_len(a) - 1]
    ELSE a

move_up(a) ==
    IF a.selected_index > 0
    THEN Ret([a EXCEPT !.selected_index = @ - 1])
    ELSE Ret(a)

move_down(a) ==
    IF ~BoardOk(a) THEN Panic(a)
    ELSE IF column_len(a) > 0 /\ a.selected_index < column_len(a) - 1
    THEN Ret([a EXCEPT !.selected_index = @ + 1])
    ELSE Ret(a)

move_left(a) ==
    IF a.selected_column > 0
    THEN LET a1 == [a EXCEPT !.selected_column = @ - 1]
         IN  IF ~BoardOk(a1) THEN Panic(a) ELSE Ret(clamp_selection(a1))
    ELSE Ret(a)

\* columns.len() - 1 underflows on a board without columns: a panic with
\* overflow checks (oc), usize::MAX without, and then the guard holds.
move_right(a, oc) ==
    IF ~BoardOk(a) THEN Panic(a)
    ELSE IF Len(board(a).columns) = 0
    THEN IF oc THEN [Panic(a) EXCEPT !.ovf = TRUE]
         ELSE [Ret(clamp_selection([a EXCEPT !.selected_column = @ + 1]))
                   EXCEPT !.ovf = TRUE]
    ELSE IF a.selected_column < Len(board(a).columns) - 1
    THEN Ret(clamp_selection([a EXCEPT !.selected_column = @ + 1]))
    ELSE Ret(a)

\* The rendering layer's "recompute visible item count": the cards of
\* card_height rows, card_spacing rows apart, that fit in available_height
\* rows (ui.rs 110 calls it; this app.rs does not hold it).
set_visible_items(a, available_height, card_height, card_spacing) ==
    [a EXCEPT !.visible_items =
        (available_height + card_spacing) \div (card_height + card_spacing)]

\* Mutant: the offset is not held to the last full window.
update_scroll_NoClamp(a) ==
    IF a.visible_items = 0 THEN Ret(a)
    ELSE IF ~BoardOk(a) THEN Panic(a)
    ELSE LET a1 == IF a.selected_index >= a.scroll_offset + a.visible_items
                   THEN [a EXCEPT !.scroll_offset =
                                      a.selected_index - a.visible_items + 1]
                   ELSE a
         IN  IF a1.selected_index < a1.scroll_offset
             THEN Ret([a1 EXCEPT !.scroll_offset = a1.selected_index])
             ELSE Ret(a1)

update_scroll(a) ==
    IF a.visible_items = 0 THEN Ret(a)
    ELSE IF ~BoardOk(a) THEN Panic(a)
    ELSE LET max_scroll == IF column_len(a) > a.visible_items
                           THEN column_len(a) - a.visible_items ELSE 0
             a1 == IF a.selected_index >= a.scroll_offset + a.visible_items
                   THEN [a EXCEPT !.scroll_offset =
                                      a.selected_index - a.visible_items + 1]
                   ELSE a
             a2 == IF a1.selected_index < a1.scroll_offset
                   THEN [a1 EXCEPT !.scroll_offset = a1.selected_index]
                   ELSE a1
         IN  IF a2.scroll_offset > max_scroll
             THEN Ret([a2 EXCEPT !.scroll_offset = max_scroll])
             ELSE Ret(a2)

\* A navigation key calls update_scroll on the App its method left, r.app,
\* unless the method panicked.
then_update_scroll(r) ==
    IF r.panic THEN r
    ELSE [update_scroll(r.app) EXCEPT !.save = r.save, !.ovf = r.ovf]

\* Mutant: the task is pushed to column to and stays in column from.
MoveTask_Copy(a, from, to) ==
    LET cols == board(a).columns
        task == cols[from + 1].tasks[a.selected_index + 1]
    IN  SetBoard(a, [board(a) EXCEPT !.columns[to + 1].tasks = Append(@, task)])

\* The task at selected_index of column from goes to the end of column to.
MoveTask(a, from, to) ==
    LET cols == board(a).columns
        task == cols[from + 1].tasks[a.selected_index + 1]
        cols1 == [cols EXCEPT ![from + 1].tasks = RemoveAt(@, a.selected_index)]
        cols2 == [cols1 EXCEPT ![to + 1].tasks = Append(@, task)]
    IN  SetBoard(a, [board(a) EXCEPT !.columns = cols2])

\* Mutant: the moved task is put on top of the next column.
move_task_forward_Prepend(a) ==
    LET cols == board(a).columns
        from == a.selected_column
    IN  IF BoardOk(a) /\ from + 1 < Len(cols)
           /\ a.selected_index < Len(cols[from + 1].tasks)
        THEN LET task == cols[from + 1].tasks[a.selected_index + 1]
                 cols1 == [cols EXCEPT ![from + 1].tasks =
                                           RemoveAt(@, a.selected_index)]
                 cols2 == [cols1 EXCEPT ![from + 2].tasks = <<task>> \o @]
             IN  Saved(clamp_selection(
                     SetBoard(a, [board(a) EXCEPT !.columns = cols2])))
        ELSE Ret(a)

move_task_forward(a) ==
    LET current_column_idx == a.selected_column
        next_column_idx == current_column_idx + 1
    IN  IF ~BoardOk(a) THEN Panic(a)
        ELSE IF next_column_idx < Len(board(a).columns)
        THEN IF a.selected_index < Len(board(a).columns[current_column_idx + 1].tasks)
             THEN Saved(clamp_selection(
                      MoveTask(a, current_column_idx, next_column_idx)))
             ELSE Ret(a)
        ELSE Ret(a)

\* get_column_mut(current_column_idx).unwrap() panics on an absent column.
move_task_backward(a) ==
    LET current_column_idx == a.selected_column
    IN  IF current_column_idx > 0
        THEN IF ~BoardOk(a) \/ current_column_idx >= Len(board(a).columns)
             THEN Panic(a)
             ELSE IF a.selected_index
                        < Len(board(a).columns[current_column_idx + 1].tasks)
             THEN Saved(clamp_selection(
                      MoveTask(a, current_column_idx, current_column_idx - 1)))
             ELSE Ret(a)
        ELSE Ret(a)

delete_task(a) ==
    LET current_column_idx == a.selected_column
    IN  IF ~BoardOk(a) \/ current_column_idx >= Len(board(a).columns)
        THEN Panic(a)
        ELSE IF a.selected_index < Len(board(a).columns[current_column_idx + 1].tasks)
        THEN Saved(clamp_selection(
                 SetBoard(a, [board(a) EXCEPT
                     !.columns[current_column_idx + 1].tasks =
                         RemoveAt(@, a.selected_index)])))
        ELSE Ret(a)

\* Mutant: a column is deleted even when it still holds tasks.
delete_column_NonEmpty(a) ==
    IF BoardOk(a) /\ Len(board(a).columns) > 1
       /\ a.selected_column < Len(board(a).columns)
    THEN LET a1 == SetBoard(a, [board(a) EXCEPT
                        !.columns = RemoveAt(@, a.selected_column)])
             a2 == IF a1.selected_column >= Len(board(a1).columns)
                   THEN [a1 EXCEPT !.selected_column = Len(board(a1).columns) - 1]
                   ELSE a1
         IN  Saved(clamp_selection(a2))
    ELSE Ret(a)

delete_column(a) ==
    IF ~BoardOk(a) THEN Panic(a)
    ELSE LET board_len == Len(board(a).columns)
             col == get_column(board(a), a.selected_column)
             is_empty == IF col.some THEN Len(col.val.tasks) = 0 ELSE FALSE
         IN  IF board_len <= 1 THEN Ret(a)
             ELSE IF is_empty
             THEN LET a1 == SetBoard(a, [board(a) EXCEPT
                                 !.columns = RemoveAt(@, a.selected_column)])
                      n == Len(board(a1).columns)
                      a2 == IF a1.selected_column >= n
                            THEN [a1 EXCEPT !.selected_column =
                                                IF n = 0 THEN 0 ELSE n - 1]
                            ELSE a1
                  IN  Saved(clamp_selection(a2))
             ELSE Ret(a)

\* columns.swap(idx, idx - 1) panics on an index out of range.
move_column_left(a) ==
    IF a.selected_column > 0
    THEN IF ~BoardOk(a) \/ a.selected_column >= Len(board(a).columns)
         THEN Panic(a)
         ELSE Saved([SetBoard(a, [board(a) EXCEPT !.columns =
                         Swap(@, a.selected_column, a.selected_column - 1)])
                     EXCEPT !.selected_column = @ - 1])
    ELSE Ret(a)

move_column_right(a, oc) ==
    IF ~BoardOk(a) THEN Panic(a)
    ELSE IF Len(board(a).columns) = 0
    THEN [Panic(a) EXCEPT !.ovf = TRUE]  \* the underflow, or the swap after it
    ELSE IF a.selected_column < Len(board(a).columns) - 1
    THEN Saved([SetBoard(a, [board(a) EXCEPT !.columns =
                    Swap(@, a.selected_column, a.selected_column + 1)])
                EXCEPT !.selected_column = @ + 1])
    ELSE Ret(a)

(***************************************************************************)
(* Input modes: the buffer, submit and cancel (app.rs 228-238, 283-410).   *)
(***************************************************************************)
start_adding_column(a) ==
    Ret([a EXCEPT !.input_mode = AddingColumn, !.input_buffer = <<>>])

\* Mutant: the name is moved into the buffer, not copied.
start_renaming_column_Take(a) ==
    IF ~BoardOk(a) THEN Panic(a)
    ELSE LET column == get_column(board(a), a.selected_column)
         IN  IF column.some
             THEN Ret([SetBoard(a, [board(a) EXCEPT
                           !.columns[a.selected_column + 1].name = <<>>])
                       EXCEPT !.input_buffer = column.val.name,
                              !.input_mode = RenamingColumn])
             ELSE Ret(a)

start_renaming_column(a) ==
    IF ~BoardOk(a) THEN Panic(a)
    ELSE LET column == get_column(board(a), a.selected_column)
         IN  IF column.some
             THEN Ret([a EXCEPT !.input_buffer = column.val.name,
                                !.input_mode = RenamingColumn])
             ELSE Ret(a)

start_adding_task(a) ==
    Ret([a EXCEPT !.input_mode = AddingTask, !.input_buffer = <<>>])

\* Mutant: the mode is entered whether a task is selected or not.
start_adding_tag_NoGuard(a) ==
    Ret([a EXCEPT !.input_mode = AddingTag, !.input_buffer = <<>>])

start_adding_tag(a) ==
    IF ~BoardOk(a) THEN Panic(a)
    ELSE LET column == get_column(board(a), a.selected_column)
         IN  IF column.some /\ a.selected_index < Len(column.val.tasks)
             THEN Ret([a EXCEPT !.input_mode = AddingTag, !.input_buffer = <<>>])
             ELSE Ret(a)

\* Mutant: the buffer keeps what was typed.
cancel_input_KeepBuffer(a) == Ret([a EXCEPT !.input_mode = Normal])

cancel_input(a) ==
    Ret([a EXCEPT !.input_mode = Normal, !.input_buffer = <<>>])

input_char(a, c) == Ret([a EXCEPT !.input_buffer = Append(@, c)])

\* String::pop: nothing to remove from an empty buffer.
input_backspace(a) ==
    IF a.input_buffer = <<>> THEN Ret(a)
    ELSE Ret([a EXCEPT !.input_buffer = SubSeq(@, 1, Len(@) - 1)])

\* get_column_mut(i).unwrap() of the arms of submit_input panics when the
\* board has no column i.
ColumnOk(a) == BoardOk(a) /\ a.selected_column < Len(board(a).columns)

\* The task at selected_index of the selected column with field f set by Set.
TaskAt(a) == board(a).columns[a.selected_column + 1].tasks[a.selected_index + 1]
SetTask(a, task) ==
    SetBoard(a, [board(a) EXCEPT
        !.columns[a.selected_column + 1].tasks[a.selected_index + 1] = task])
TaskInRange(a) ==
    a.selected_index < Len(board(a).columns[a.selected_column + 1].tasks)

\* Mutant: an empty buffer makes a task with an empty title.
submit_AddingTask_EmptyTitle(a) ==
    IF ~ColumnOk(a) THEN Panic(a)
    ELSE LET a1 == SetBoard(a, [board(a) EXCEPT
                       !.columns[a.selected_column + 1].tasks =
                           Append(@, NewTask(a.input_buffer))])
             n == Len(board(a1).columns[a.selected_column + 1].tasks)
         IN  Saved(update_scroll([a1 EXCEPT !.selected_index = n - 1]).app)

\* InputMode::AddingTask arm.
submit_AddingTask(a) ==
    IF a.input_buffer # <<>>
    THEN IF ~ColumnOk(a) THEN Panic(a)
         ELSE LET task == NewTask(a.input_buffer)
                  a1 == SetBoard(a, [board(a) EXCEPT
                            !.columns[a.selected_column + 1].tasks =
                                Append(@, task)])
                  n == Len(board(a1).columns[a.selected_column + 1].tasks)
                  a2 == IF n > 0
                        THEN update_scroll([a1 EXCEPT !.selected_index = n - 1]).app
                        ELSE a1
              IN  Saved(a2)
    ELSE Ret(a)

\* InputMode::AddingTag arm.
submit_AddingTag(a) ==
    IF a.input_buffer # <<>>
    THEN IF ~ColumnOk(a) THEN Panic(a)
         ELSE IF TaskInRange(a)
         THEN Saved(SetTask(a, add_tag(TaskAt(a), a.input_buffer)))
         ELSE Ret(a)
    ELSE Ret(a)

\* Mutant: an empty buffer becomes the title too.
submit_EditingTitle_Empty(a) ==
    IF ~ColumnOk(a) THEN Panic(a)
    ELSE IF TaskInRange(a)
    THEN Saved([SetTask(a, [TaskAt(a) EXCEPT !.title = a.input_buffer])
                    EXCEPT !.input_mode = ViewingTask, !.input_buffer = <<>>])
    ELSE Ret([a EXCEPT !.input_mode = ViewingTask, !.input_buffer = <<>>])

\* Mutant: a non-empty buffer only is stored as the description.
submit_EditingDescription_NonEmpty(a) ==
    IF ~ColumnOk(a) THEN Panic(a)
    ELSE IF TaskInRange(a) /\ a.input_buffer # <<>>
    THEN Saved([SetTask(a, [TaskAt(a) EXCEPT !.description = a.input_buffer])
                    EXCEPT !.input_mode = ViewingTask, !.input_buffer = <<>>])
    ELSE Ret([a EXCEPT !.input_mode = ViewingTask, !.input_buffer = <<>>])

\* InputMode::EditingTitle arm, which returns on its own.
submit_EditingTitle(a) ==
    LET done(r) == [r EXCEPT !.app.input_mode = ViewingTask,
                             !.app.input_buffer = <<>>]
    IN  IF a.input_buffer # <<>>
        THEN IF ~ColumnOk(a) THEN Panic(a)
             ELSE IF TaskInRange(a)
             THEN done(Saved(SetTask(a, [TaskAt(a) EXCEPT
                                            !.title = a.input_buffer])))
             ELSE done(Ret(a))
        ELSE done(Ret(a))

\* InputMode::EditingDescription arm: an empty description is stored too.
submit_EditingDescription(a) ==
    LET done(r) == [r EXCEPT !.app.input_mode = ViewingTask,
                             !.app.input_buffer = <<>>]
    IN  IF ~ColumnOk(a) THEN Panic(a)
        ELSE IF TaskInRange(a)
        THEN done(Saved(SetTask(a, [TaskAt(a) EXCEPT
                                       !.description = a.input_buffer])))
        ELSE done(Ret(a))

\* InputMode::AddingProject arm: the new project becomes the current one.
submit_AddingProject(a) ==
    LET done(r) == [r EXCEPT !.app.input_mode = ProjectList,
                             !.app.input_buffer = <<>>]
    IN  IF a.input_buffer # <<>>
        THEN LET projects == Append(a.projects, ProjectNew(a.input_buffer))
             IN  done(Saved([a EXCEPT
                     !.projects = projects,
                     !.current_project = Len(projects) - 1,
                     !.selected_project_index = Len(projects) - 1]))
        ELSE done(Ret(a))

\* str::to_lowercase and str::replace(" ", "_") on the letters of the model.
LowerOf(c) ==
    CASE c = "A" -> "a" [] c = "B" -> "b" [] c = "C" -> "c" [] c = "D" -> "d"
      [] c = "P" -> "p" [] c = "Q" -> "q" [] c = "R" -> "r" [] c = "T" -> "t"
      [] c = "X" -> "x" [] c = "Y" -> "y" [] c = "Z" -> "z" [] OTHER -> c
to_lowercase(s) == [i \in 1..Len(s) |-> LowerOf(s[i])]
replace(s, from, to) == [i \in 1..Len(s) |-> IF s[i] = from THEN to ELSE s[i]]

\* Mutant: the name is the id as it is typed.
submit_AddingColumn_NameAsId(a) ==
    IF a.input_buffer # <<>> /\ BoardOk(a)
    THEN Saved(SetBoard(a, [board(a) EXCEPT !.columns =
             Append(@, NewBoardColumn(a.input_buffer, a.input_buffer))]))
    ELSE Ret(a)

\* InputMode::AddingColumn arm.
submit_AddingColumn(a) ==
    IF a.input_buffer # <<>>
    THEN IF ~BoardOk(a) THEN Panic(a)
         ELSE LET name == a.input_buffer
                  id == replace(to_lowercase(name), " ", "_")
              IN  Saved(SetBoard(a, [board(a) EXCEPT
                      !.columns = Append(@, NewBoardColumn(id, name))]))
    ELSE Ret(a)

\* Mutant: the id follows the new name.
submit_RenamingColumn_NewId(a) ==
    IF a.input_buffer # <<>> /\ ColumnOk(a)
    THEN Saved(SetBoard(a, [board(a) EXCEPT
             !.columns[a.selected_column + 1].name = a.input_buffer,
             !.columns[a.selected_column + 1].id =
                 replace(to_lowercase(a.input_buffer), " ", "_")]))
    ELSE Ret(a)

\* InputMode::RenamingColumn arm.
submit_RenamingColumn(a) ==
    IF a.input_buffer # <<>>
    THEN IF ~BoardOk(a) THEN Panic(a)
         ELSE IF a.selected_column < Len(board(a).columns)
         THEN Saved(SetBoard(a, [board(a) EXCEPT
                  !.columns[a.selected_column + 1].name = a.input_buffer]))
         ELSE Ret(a)
    ELSE Ret(a)

\* The arms of EditingTitle, EditingDescription and AddingProject return;
\* every other arm goes on to cancel_input().
submit_input(a) ==
    LET r == CASE a.input_mode = AddingTask -> submit_AddingTask(a)
               [] a.input_mode = AddingTag -> submit_AddingTag(a)
               [] a.input_mode = EditingTitle -> submit_EditingTitle(a)
               [] a.input_mode = EditingDescription -> submit_EditingDescription(a)
               [] a.input_mode = AddingProject -> submit_AddingProject(a)
               [] a.input_mode = AddingColumn -> submit_AddingColumn(a)
               [] a.input_mode = RenamingColumn -> submit_RenamingColumn(a)
               [] OTHER -> Ret(a)
    IN  IF r.panic
           \/ a.input_mode \in {EditingTitle, EditingDescription, AddingProject}
        THEN r
        ELSE [r EXCEPT !.app = cancel_input(r.app).app]

(***************************************************************************)
(* Task detail view (app.rs 413-464).                                      *)
(***************************************************************************)
\* Mutant: the view opens whether a task is selected or not.
open_task_NoGuard(a) ==
    Ret([a EXCEPT !.input_mode = ViewingTask, !.focused_field = "Title"])

open_task(a) ==
    IF ~BoardOk(a) THEN Panic(a)
    ELSE LET column == get_column(board(a), a.selected_column)
         IN  IF column.some /\ a.selected_index < Len(column.val.tasks)
             THEN Ret([a EXCEPT !.input_mode = ViewingTask,
                                !.focused_field = "Title"])
             ELSE Ret(a)

next_field(a) ==
    Ret([a EXCEPT !.focused_field =
            CASE @ = "Title" -> "Tags"
              [] @ = "Tags" -> "Description"
              [] @ = "Description" -> "Title"])

start_editing_title(a) ==
    IF ~BoardOk(a) THEN Panic(a)
    ELSE LET column == get_column(board(a), a.selected_column)
         IN  IF column.some /\ a.selected_index < Len(column.val.tasks)
             THEN Ret([a EXCEPT
                     !.input_buffer = column.val.tasks[a.selected_index + 1].title,
                     !.input_mode = EditingTitle])
             ELSE Ret(a)

start_editing_description(a) ==
    IF ~BoardOk(a) THEN Panic(a)
    ELSE LET column == get_column(board(a), a.selected_column)
         IN  IF column.some /\ a.selected_index < Len(column.val.tasks)
             THEN Ret([a EXCEPT
                     !.input_buffer =
                         column.val.tasks[a.selected_index + 1].description,
                     !.input_mode = EditingDescription])
             ELSE Ret(a)

\* Mutant: the first tag goes, whatever the index.
remove_tag_First(a, tag_index) ==
    IF ~BoardOk(a) THEN Panic(a)
    ELSE IF a.selected_column < Len(board(a).columns) /\ TaskInRange(a)
            /\ tag_index < Len(TaskAt(a).tags)
    THEN Saved(SetTask(a, [TaskAt(a) EXCEPT !.tags = RemoveAt(@, 0)]))
    ELSE Ret(a)

remove_tag(a, tag_index) ==
    IF ~BoardOk(a) THEN Panic(a)
    ELSE IF a.selected_column < Len(board(a).columns) /\ TaskInRange(a)
            /\ tag_index < Len(TaskAt(a).tags)
    THEN Saved(SetTask(a, [TaskAt(a) EXCEPT !.tags = RemoveAt(@, tag_index)]))
    ELSE Ret(a)

(***************************************************************************)
(* Project list (app.rs 467-519).                                          *)
(***************************************************************************)
\* Mutant: the highlight stays where the list was left.
open_project_list_KeepHighlight(a) == Ret([a EXCEPT !.input_mode = ProjectList])

open_project_list(a) ==
    Ret([a EXCEPT !.input_mode = ProjectList,
                  !.selected_project_index = a.current_project])

\* Mutant: the column and task selection of the project left stay.
select_project_KeepSelection(a) ==
    Ret([a EXCEPT !.current_project = a.selected_project_index,
                  !.input_mode = Normal])

select_project(a) ==
    Ret([a EXCEPT !.current_project = a.selected_project_index,
                  !.input_mode = Normal,
                  !.selected_column = 0,
                  !.selected_index = 0,
                  !.scroll_offset = 0])

move_project_up(a) ==
    IF a.selected_project_index > 0
    THEN Ret([a EXCEPT !.selected_project_index = @ - 1])
    ELSE Ret(a)

\* projects.len() - 1 underflows without projects: a panic with overflow
\* checks (oc), usize::MAX without, and then the guard holds.
move_project_down(a, oc) ==
    IF Len(a.projects) = 0
    THEN IF oc THEN [Panic(a) EXCEPT !.ovf = TRUE]
         ELSE [Ret([a EXCEPT !.selected_project_index = @ + 1]) EXCEPT !.ovf = TRUE]
    ELSE IF a.selected_project_index < Len(a.projects) - 1
    THEN Ret([a EXCEPT !.selected_project_index = @ + 1])
    ELSE Ret(a)

start_adding_project(a) ==
    Ret([a EXCEPT !.input_mode = AddingProject, !.input_buffer = <<>>])

\* Mutant: the project on display goes, not the highlighted one.
delete_project_Current(a) ==
    IF Len(a.projects) > 1 /\ a.current_project < Len(a.projects)
    THEN LET projects == RemoveAt(a.projects, a.current_project)
             n == Len(projects)
         IN  Saved([a EXCEPT
                 !.projects = projects,
                 !.selected_project_index = IF @ >= n THEN n - 1 ELSE @,
                 !.current_project = IF @ >= n THEN n - 1 ELSE @])
    ELSE Ret(a)

\* Vec::remove panics on an index out of range.
delete_project(a) ==
    IF Len(a.projects) > 1
    THEN IF a.selected_project_index >= Len(a.projects) THEN Panic(a)
         ELSE LET projects == RemoveAt(a.projects, a.selected_project_index)
                  n == Len(projects)
              IN  Saved([a EXCEPT
                      !.projects = projects,
                      !.selected_project_index = IF @ >= n THEN n - 1 ELSE @,
                      !.current_project = IF @ >= n THEN n - 1 ELSE @])
    ELSE Ret(a)

show_help(a) == Ret([a EXCEPT !.input_mode = ViewingHelp])

\* Mutant: the view stays open.
close_view_Stay(a) == Ret([a EXCEPT !.input_buffer = <<>>])

close_view(a) == Ret([a EXCEPT !.input_mode = Normal, !.input_buffer = <<>>])

(***************************************************************************)
(* Keys of the board view (main.rs handle_normal_mode).                    *)
(***************************************************************************)
KeyUp == app.input_mode = Normal
         /\ Apply("move_up", then_update_scroll(move_up(app)), TRUE)
KeyDown == app.input_mode = Normal
           /\ Apply("move_down", then_update_scroll(move_down(app)), TRUE)
KeyLeft == app.input_mode = Normal
           /\ Apply("move_left", then_update_scroll(move_left(app)), TRUE)
KeyRight == app.input_mode = Normal
            /\ \E oc \in BuildChoices :
                 Apply("move_right", then_update_scroll(move_right(app, oc)), oc)
KeyMoveTaskForward == app.input_mode = Normal
    /\ Apply("move_task_forward", move_task_forward(app), TRUE)
KeyMoveTaskBackward == app.input_mode = Normal
    /\ Apply("move_task_backward", move_task_backward(app), TRUE)
KeyDeleteTask == app.input_mode = Normal
    /\ Apply("delete_task", delete_task(app), TRUE)
KeyDeleteColumn == app.input_mode = Normal
    /\ Apply("delete_column", delete_column(app), TRUE)
KeyMoveColumnLeft == app.input_mode = Normal
    /\ Apply("move_column_left", move_column_left(app), TRUE)
KeyMoveColumnRight == app.input_mode = Normal
    /\ \E oc \in BuildChoices :
         Apply("move_column_right", move_column_right(app, oc), oc)

\* handle_normal_mode, 'q'.
quit(a) == Ret([a EXCEPT !.should_quit = TRUE])
Quit == app.input_mode = Normal /\ Apply("quit", quit(app), TRUE)

(***************************************************************************)
(* Keys of the other modes (main.rs 52-60, 125-131, 139-243).  Typed text  *)
(* is drawn from Chars and stops at MaxBuf characters; the projects take   *)
(* tasks up to MaxTasks in all and the list projects up to MaxProjects.    *)
(***************************************************************************)
Chars == {"a"}

RECURSIVE TaskCount(_)
TaskCount(columns) ==
    IF columns = <<>> THEN 0
    ELSE Len(Head(columns).tasks) + TaskCount(Tail(columns))

RECURSIVE AllTasks(_)
AllTasks(projects) ==
    IF projects = <<>> THEN 0
    ELSE TaskCount(Head(projects).board.columns) + AllTasks(Tail(projects))
Digits == 1..MaxDigit

\* Ctrl+P, caught before the dispatch on the mode: it opens the list in
\* Normal mode and is dropped in every other mode.
KeyOpenProjectList ==
    /\ status = "run"
    /\ Apply("open_project_list",
             IF app.input_mode = Normal THEN open_project_list(app) ELSE Ret(app),
             TRUE)
KeyOpenTask == app.input_mode = Normal
    /\ Apply("open_task", open_task(app), TRUE)
KeyStartAddingTask == app.input_mode = Normal
    /\ AllTasks(app.projects) < MaxTasks
    /\ Apply("start_adding_task", start_adding_task(app), TRUE)
KeyStartAddingTag == app.input_mode = Normal
    /\ Apply("start_adding_tag", start_adding_tag(app), TRUE)
KeyShowHelp == app.input_mode = Normal
    /\ Apply("show_help", show_help(app), TRUE)

\* Enter, Backspace and a character do the same in handle_input_mode (for
\* AddingTask and AddingTag), handle_editing_title_mode and
\* handle_adding_project_mode; Backspace and a character in
\* handle_editing_description_mode too.
KeyEnter == app.input_mode \in {AddingTask, AddingTag, EditingTitle, AddingProject}
    /\ Apply("submit_input", submit_input(app), TRUE)
KeyBackspace ==
    /\ app.input_mode \in {AddingTask, AddingTag, EditingTitle,
                           EditingDescription, AddingProject}
    /\ Apply("input_backspace", input_backspace(app), TRUE)
KeyChar ==
    /\ app.input_mode \in {AddingTask, AddingTag, EditingTitle,
                           EditingDescription, AddingProject}
    /\ Len(app.input_buffer) < MaxBuf
    /\ \E c \in Chars : Apply("input_char", input_char(app, c), TRUE)

\* handle_input_mode, Esc.
InputEsc == app.input_mode \in {AddingTask, AddingTag}
    /\ Apply("cancel_input", cancel_input(app), TRUE)

\* handle_viewing_task_mode.
ViewEsc == app.input_mode = ViewingTask
    /\ Apply("close_view", close_view(app), TRUE)
ViewTab == app.input_mode = ViewingTask
    /\ Apply("next_field", next_field(app), TRUE)
ViewEnter == app.input_mode = ViewingTask
    /\ Apply("start_editing",
             CASE app.focused_field = "Title" -> start_editing_title(app)
               [] app.focused_field = "Description" -> start_editing_description(app)
               [] app.focused_field = "Tags" -> Ret(app),
             TRUE)
\* A digit key: last.op keeps the digit.
ViewDigit == app.input_mode = ViewingTask
    /\ \E c \in Digits :
         Apply("digit_" \o ToString(c),
               IF app.focused_field = "Tags" THEN remove_tag(app, c - 1) ELSE Ret(app),
               TRUE)

\* handle_editing_title_mode, Esc: the title stays as it was.
TitleEsc == app.input_mode = EditingTitle
    /\ Apply("esc", Ret([app EXCEPT !.input_mode = ViewingTask,
                                    !.input_buffer = <<>>]), TRUE)

\* handle_editing_description_mode: Enter types a line break, Esc submits.
DescEnter == app.input_mode = EditingDescription
    /\ Len(app.input_buffer) < MaxBuf
    /\ Apply("input_char", input_char(app, "\n"), TRUE)
DescEsc == app.input_mode = EditingDescription
    /\ Apply("esc", submit_input(app), TRUE)

\* handle_viewing_help_mode: Esc or '?'.
HelpClose == app.input_mode = ViewingHelp
    /\ Apply("close_view", close_view(app), TRUE)

\* handle_project_list_mode.
ListEsc == app.input_mode = ProjectList
    /\ Apply("close_view", close_view(app), TRUE)
ListDown == app.input_mode = ProjectList
    /\ \E oc \in BuildChoices :
         Apply("move_project_down", move_project_down(app, oc), oc)
ListUp == app.input_mode = ProjectList
    /\ Apply("move_project_up", move_project_up(app), TRUE)
ListEnter == app.input_mode = ProjectList
    /\ Apply("select_project", select_project(app), TRUE)
ListAdd == app.input_mode = ProjectList
    /\ Len(app.projects) < MaxProjects
    /\ Apply("start_adding_project", start_adding_project(app), TRUE)
ListDelete == app.input_mode = ProjectList
    /\ Apply("delete_project", delete_project(app), TRUE)

\* handle_adding_project_mode, Esc: back to the list.
ProjEsc == app.input_mode = AddingProject
    /\ Apply("esc", Ret([app EXCEPT !.input_mode = ProjectList,
                                    !.input_buffer = <<>>]), TRUE)

(***************************************************************************)
(* Keys of the column modes.  main.rs of this snapshot binds no key to     *)
(* start_adding_column and start_renaming_column and has no arm for        *)
(* AddingColumn and RenamingColumn; the two modes capture a name, submit   *)
(* it and cancel as the other input-capturing modes do.  A name is typed   *)
(* from ColumnChars, a capital and a space, which the id does not keep.    *)
(***************************************************************************)
ColumnChars == {"A", " "}

KeyStartAddingColumn == app.input_mode = Normal
    /\ (BoardOk(app) => Len(board(app).columns) < MaxColumns)
    /\ Apply("start_adding_column", start_adding_column(app), TRUE)
KeyStartRenamingColumn == app.input_mode = Normal
    /\ Apply("start_renaming_column", start_renaming_column(app), TRUE)

\* Enter, Backspace and a character in mode, one of the two.
ColumnInput(mode) ==
    /\ app.input_mode = mode
    /\ \/ Apply("submit_input", submit_input(app), TRUE)
       \/ Apply("input_backspace", input_backspace(app), TRUE)
       \/ /\ Len(app.input_buffer) < MaxBuf
          /\ \E c \in ColumnChars : Apply("input_char", input_char(app, c), TRUE)

\* Esc in the two modes.
ColumnEsc == app.input_mode \in {AddingColumn, RenamingColumn}
    /\ Apply("cancel_input", cancel_input(app), TRUE)

(***************************************************************************)
(* Files found at start-up.                                                *)
(***************************************************************************)
TaskA == NewTask(<<"A">>)
TaskB == [title |-> <<"B">>, tags |-> << <<"x">> >>, description |-> <<"d">>]
TaskC == NewTask(<<"C">>)
NoDescription == [title |-> <<"A">>, tags |-> <<>>]  \* a Task object cut short

LegacyEmpty == [todo |-> <<>>, in_progress |-> <<>>, testing |-> <<>>, done |-> <<>>]
LegacyAB == [todo |-> <<TaskA>>, in_progress |-> <<>>, testing |-> <<TaskB>>,
             done |-> <<>>]
LegacyFull == [todo |-> <<TaskA, TaskB>>, in_progress |-> <<TaskC>>,
               testing |-> <<>>, done |-> <<TaskB, TaskA>>]

Col(id, name, tasks) == [id |-> id, name |-> name, tasks |-> tasks]
BoardOne == [columns |-> << Col(<<"c">>, <<"C">>, <<TaskA>>) >>]
BoardTwo == [columns |-> << Col(S_done, <<"X">>, <<TaskB, TaskA>>),
                            Col(S_todo, S_ToDo, <<>>) >>]
ProjP == [name |-> <<"P">>, board |-> BoardOne]
ProjQ == [name |-> <<"Q">>, board |-> BoardTwo]
LegP == [name |-> <<"P">>, board |-> LegacyAB]
LegQ == [name |-> <<"Q">>, board |-> LegacyFull]

LegacyDoc(ps) == Arr([i \in 1..Len(ps) |-> LegacyProjectToJson(ps[i])])

\* Any content of the current-format file: written by this version, an
\* empty array, a board without columns, another format, no JSON.
AnyConfigFiles ==
    { Absent, Corrupt, Arr(<<>>),
      save_projects(<<ProjP>>), save_projects(<<ProjQ, ProjP>>),
      Arr(<< [name |-> <<"Z">>, board |-> [columns |-> <<>>]] >>),
      LegacyDoc(<<LegP>>), save_board(LegacyAB) }

\* Any content of the intermediate file.
AnyOmarchyFiles ==
    { Absent, Corrupt, Arr(<<>>),
      LegacyDoc(<<LegP>>), LegacyDoc(<<LegQ, LegP>>),
      save_projects(<<ProjP>>),
      Arr(<< [name |-> <<"P">>,
              board |-> [LegacyBoardToJson(LegacyEmpty) EXCEPT
                             !.todo = <<NoDescription>>]] >>) }

\* Any content of the oldest file.
AnyBoardFiles ==
    { Absent, Corrupt,
      save_board(LegacyEmpty), save_board(LegacyAB), save_board(LegacyFull),
      Obj(BoardToJson(BoardOne)), Arr(<<>>) }

(***************************************************************************)
(* SpecLoad: start-up over every combination of the three files, the       *)
(* process quitting and starting again.                                    *)
(***************************************************************************)
InitLoad ==
    /\ app = AppNewState(<<>>)
    /\ status = "boot"
    /\ config_file \in AnyConfigFiles
    /\ old_omarchy_file \in AnyOmarchyFiles
    /\ old_board_file \in AnyBoardFiles
    /\ loaded = NoLoad
    /\ last = NoIntent
    /\ build = "unknown"
    /\ faults = MaxFaults

NextLoad == AppNew \/ Quit

SpecLoad == InitLoad /\ [][NextLoad]_vars

(***************************************************************************)
(* Spec: the board view.  The process starts on files this or an older     *)
(* version wrote (or on none) and handles the keys of Normal mode that     *)
(* navigate, move and delete tasks, and delete and reorder columns.        *)
(***************************************************************************)
BoardABC == [columns |-> << Col(<<"x">>, <<"X">>, <<TaskA, TaskB, TaskC>>),
                            Col(<<"y">>, <<"Y">>, <<>>),
                            Col(<<"z">>, <<"Z">>, <<>>) >>]
ProjABC == [name |-> <<"R">>, board |-> BoardABC]

StartFiles ==
    { <<Absent, Absent, Absent>>,
      <<save_projects(<<ProjABC>>), Absent, Absent>>,
      <<save_projects(<<ProjQ, ProjP>>), Absent, Absent>>,
      <<save_projects(<<ProjP, ProjQ>>), Absent, save_board(LegacyFull)>> }

Init ==
    /\ app = AppNewState(<<>>)
    /\ status = "boot"
    /\ \E files \in StartFiles :
          /\ config_file = files[1]
          /\ old_omarchy_file = files[2]
          /\ old_board_file = files[3]
    /\ loaded = NoLoad
    /\ last = NoIntent
    /\ build = "unknown"
    /\ faults = 0

Next ==
    \/ AppNew
    \/ KeyUp \/ KeyDown \/ KeyLeft \/ KeyRight
    \/ KeyMoveTaskForward \/ KeyMoveTaskBackward \/ KeyDeleteTask
    \/ KeyDeleteColumn \/ KeyMoveColumnLeft \/ KeyMoveColumnRight

Spec == Init /\ [][Next]_vars

(***************************************************************************)
(* Claims about load_projects (checked under SpecLoad).                    *)
(***************************************************************************)
\* The step in which a process starts and load_projects runs.
LoadStep == status # "run" /\ status' = "run"

Parsable(file) == file.kind # "absent" /\ ParseProjects(file).ok
LegacyParsable(file) == file.kind # "absent" /\ ParseLegacyProjects(file).ok
BoardParsable(file) == file.kind # "absent" /\ ParseLegacyBoard(file).ok
Unparsable(file) == file.kind # "absent" /\ ~ParseProjects(file).ok
LegacyUnparsable(file) == file.kind # "absent" /\ ~ParseLegacyProjects(file).ok

\* Task objects js of a document and tasks ts are the same tasks in order.
SameTasks(js, ts) ==
    /\ Len(js) = Len(ts)
    /\ \A k \in 1..Len(ts) :
        /\ js[k].title = ts[k].title
        /\ js[k].tags = ts[k].tags
        /\ js[k].description = ts[k].description

\* Document doc is an array that holds exactly projects ps, in order.
DocHolds(doc, ps) ==
    /\ doc.kind = "array"
    /\ Len(doc.items) = Len(ps)
    /\ \A i \in 1..Len(ps) :
        /\ doc.items[i].name = ps[i].name
        /\ Len(doc.items[i].board.columns) = Len(ps[i].board.columns)
        /\ \A j \in 1..Len(ps[i].board.columns) :
            /\ doc.items[i].board.columns[j].id = ps[i].board.columns[j].id
            /\ doc.items[i].board.columns[j].name = ps[i].board.columns[j].name
            /\ SameTasks(doc.items[i].board.columns[j].tasks,
                         ps[i].board.columns[j].tasks)

\* Board b is the four canonical columns holding the tasks of the four
\* fields of the legacy board object j.
FourColumnsOf(b, j) ==
    /\ Len(b.columns) = 4
    /\ <<b.columns[1].id, b.columns[2].id, b.columns[3].id, b.columns[4].id>>
         = <<S_todo, S_in_progress, S_testing, S_done>>
    /\ <<b.columns[1].name, b.columns[2].name, b.columns[3].name,
         b.columns[4].name>> = <<S_ToDo, S_InProgress, S_Testing, S_Done>>
    /\ SameTasks(j.todo, b.columns[1].tasks)
    /\ SameTasks(j.in_progress, b.columns[2].tasks)
    /\ SameTasks(j.testing, b.columns[3].tasks)
    /\ SameTasks(j.done, b.columns[4].tasks)

\* The load wrote ps: it called save_projects, and the file holds ps when
\* the write succeeded.
WroteBack(ps) ==
    /\ loaded'.save
    /\ loaded'.outcome = "ok" => DocHolds(config_file', ps)
    /\ loaded'.outcome = "denied" => config_file' = config_file

\* C1: load_projects never fails and returns at least one project, whatever
\* the three files hold.
C1_LoadReturnsAProject ==
    loaded.step # 0 => Len(app.projects) >= 1

\* C2: a current-format file that parses is returned as it is (projects,
\* columns, tasks, order), whatever the legacy files hold, and nothing is
\* written.
C2_FastPathReturnsFile ==
    [][(LoadStep /\ Parsable(config_file)) =>
          /\ loaded'.step = 1
          /\ DocHolds(config_file, app'.projects)
          /\ ~loaded'.save
          /\ config_file' = config_file]_vars

C2_Witness ==
    /\ status = "run" /\ loaded.step = 1
    /\ Len(app.projects) = 2
    /\ Len(app.projects[1].board.columns[1].tasks) = 2
    /\ LegacyParsable(old_omarchy_file)
    /\ BoardParsable(old_board_file)

\* C3: a file that exists and does not parse counts as absent at its level:
\* the cascade goes on to the intermediate file, then the oldest file, then
\* the default project.
C3_UnparsableFallsThrough ==
    [][LoadStep =>
          /\ Unparsable(config_file) =>
                loaded'.step = IF LegacyParsable(old_omarchy_file) THEN 2
                               ELSE IF BoardParsable(old_board_file) THEN 3
                               ELSE 4
          /\ (~Parsable(config_file) /\ LegacyUnparsable(old_omarchy_file)) =>
                loaded'.step = IF BoardParsable(old_board_file) THEN 3 ELSE 4
          /\ (loaded'.step = 2 /\ Unparsable(config_file)) =>
                /\ Len(app'.projects) = Len(old_omarchy_file.items)
                /\ \A i \in 1..Len(app'.projects) :
                      FourColumnsOf(app'.projects[i].board,
                                    old_omarchy_file.items[i].board)
          /\ (loaded'.step = 3 /\ (Unparsable(config_file)
                                   \/ LegacyUnparsable(old_omarchy_file))) =>
                /\ Len(app'.projects) = 1
                /\ FourColumnsOf(app'.projects[1].board, old_board_file.obj)
          /\ (loaded'.step = 4 /\ (Unparsable(config_file)
                                   \/ LegacyUnparsable(old_omarchy_file))) =>
                /\ Len(app'.projects) = 1
                /\ app'.projects[1].name = S_Default
                /\ FourColumnsOf(app'.projects[1].board,
                                 LegacyBoardToJson(LegacyEmpty))]_vars

C3_Witness ==
    /\ status = "run" /\ loaded.step = 3
    /\ old_omarchy_file.kind \notin {"absent"}
    /\ ~ParseLegacyProjects(old_omarchy_file).ok
    /\ Len(app.projects[1].board.columns[4].tasks) = 2

\* C4: with no usable current-format file and a parsable intermediate file,
\* every legacy project becomes a project of the same name, in order, with
\* the four canonical columns holding the tasks of the four fields, and
\* the converted collection is written to the current-format path.
C4_IntermediateMigration ==
    [][(LoadStep /\ ~Parsable(config_file) /\ LegacyParsable(old_omarchy_file)) =>
          /\ loaded'.step = 2
          /\ Len(app'.projects) = Len(old_omarchy_file.items)
          /\ \A i \in 1..Len(app'.projects) :
                /\ app'.projects[i].name = old_omarchy_file.items[i].name
                /\ FourColumnsOf(app'.projects[i].board,
                                 old_omarchy_file.items[i].board)
          /\ WroteBack(app'.projects)]_vars

C4_Witness ==
    /\ status = "run" /\ loaded.step = 2 /\ loaded.outcome = "ok"
    /\ Len(app.projects) = 2
    /\ app.projects[1].name = <<"Q">>
    /\ Len(app.projects[1].board.columns[4].tasks) = 2
    /\ config_file.kind = "array"

\* C5: with only the oldest file usable, a file written by the oldest
\* version's save_board, the load returns one project "Default" with the
\* four canonical columns holding the tasks of the four fields in order, and
\* writes it in the current format.
C5_OldestMigration ==
    [][(/\ LoadStep
        /\ ~Parsable(config_file)
        /\ ~LegacyParsable(old_omarchy_file)
        /\ \E b \in {LegacyEmpty, LegacyAB, LegacyFull} :
              old_board_file = save_board(b)) =>
          /\ loaded'.step = 3
          /\ Len(app'.projects) = 1
          /\ app'.projects[1].name = S_Default
          /\ FourColumnsOf(app'.projects[1].board, old_board_file.obj)
          /\ WroteBack(app'.projects)]_vars

C5_Witness ==
    /\ status = "run" /\ loaded.step = 3 /\ loaded.outcome = "ok"
    /\ old_board_file = save_board(LegacyAB)
    /\ app.projects[1].board.columns[1].tasks = <<TaskA>>
    /\ app.projects[1].board.columns[3].tasks = <<TaskB>>
    /\ DocHolds(config_file, app.projects)

C7_BoardHasAColumn ==
    status = "run" =>
        \A i \in 1..Len(app.projects) : Len(app.projects[i].board.columns) >= 1

(***************************************************************************)
(* Claims about the board view (checked under Spec).                       *)
(***************************************************************************)
\* selected_column names a column and selected_index a task of it, or is 0
\* when the column is empty.
ValidSelection(a) ==
    /\ BoardOk(a)
    /\ a.selected_column < Len(board(a).columns)
    /\ LET n == Len(board(a).columns[a.selected_column + 1].tasks)
       IN  IF n = 0 THEN a.selected_index = 0 ELSE a.selected_index < n

\* Sequence new is old without its element at 0-based index i.
IsRemoval(new, old, i) ==
    /\ Len(new) = Len(old) - 1
    /\ \A k \in 1..Len(new) : new[k] = IF k <= i THEN old[k] ELSE old[k + 1]

\* Every project but the current one is the same in a and b.
OtherProjectsSame(a, b) ==
    /\ Len(b.projects) = Len(a.projects)
    /\ b.current_project = a.current_project
    /\ \A i \in 1..Len(a.projects) :
          i # a.current_project + 1 => b.projects[i] = a.projects[i]
    /\ b.projects[b.current_project + 1].name = a.projects[a.current_project + 1].name

\* The step called save(), and the file holds the projects now in memory.
SavedAll ==
    /\ last'.save
    /\ last'.outcome = "ok" => DocHolds(config_file', app'.projects)

\* Nothing in memory or on disk changed, and save() was not called.
NoEffect == app' = app /\ config_file' = config_file /\ ~last'.save

\* C8: delete_column changes nothing when the selected column holds a task
\* or the board has one column; with more than one column and an empty
\* selected column it removes that column only, keeps the others in order,
\* re-clamps selected_column and saves.
C8_DeleteColumn ==
    [][(status = "run" /\ last'.op = "delete_column" /\ ValidSelection(app)) =>
          LET cols == board(app).columns
              sc == app.selected_column
          IN  IF Len(cols) > 1 /\ Len(cols[sc + 1].tasks) = 0
              THEN /\ IsRemoval(board(app').columns, cols, sc)
                   /\ app'.selected_column =
                          IF sc >= Len(cols) - 1 THEN Len(cols) - 2 ELSE sc
                   /\ OtherProjectsSame(app, app')
                   /\ SavedAll
              ELSE NoEffect]_vars

C8_Witness ==
    /\ status = "run" /\ last.op = "delete_column" /\ ~last.save
    /\ Len(board(app).columns) = 1
    /\ board(app).columns[1] = Col(<<"z">>, <<"Z">>, <<>>)

\* C9: a navigation intent (move_up, move_down, move_left, move_right, each
\* followed by update_scroll) taken with valid indices leaves valid indices
\* and does not crash.
C9_NavigationKeepsSelection ==
    [][(/\ status = "run"
        /\ last'.op \in {"move_up", "move_down", "move_left", "move_right"}
        /\ ValidSelection(app)) =>
          status' = "run" /\ ValidSelection(app')]_vars

C9_Witness ==
    /\ status = "run" /\ last.op = "move_right"
    /\ app.selected_column = 1 /\ app.selected_index = 1
    /\ board(app).columns[1].tasks = <<TaskA>>
    /\ board(app).columns[2].tasks = <<TaskB, TaskC>>

\* C10: move_task_forward on the last column (or with no task selected)
\* changes nothing; otherwise the selected task leaves its column and
\* becomes the last task of the next column, every other task and column
\* stays as it was, the selection stays on the source column with
\* selected_index re-clamped, and it saves.
C10_MoveTaskForward ==
    [][(status = "run" /\ last'.op = "move_task_forward" /\ ValidSelection(app)) =>
          LET cols == board(app).columns
              new == board(app').columns
              sc == app.selected_column
              si == app.selected_index
          IN  IF sc + 1 < Len(cols) /\ si < Len(cols[sc + 1].tasks)
              THEN /\ Len(new) = Len(cols)
                   /\ IsRemoval(new[sc + 1].tasks, cols[sc + 1].tasks, si)
                   /\ new[sc + 2].tasks
                        = Append(cols[sc + 2].tasks, cols[sc + 1].tasks[si + 1])
                   /\ \A j \in 1..Len(cols) :
                        /\ new[j].id = cols[j].id /\ new[j].name = cols[j].name
                        /\ j \notin {sc + 1, sc + 2} => new[j] = cols[j]
                   /\ app'.selected_column = sc
                   /\ app'.selected_index =
                        IF Len(new[sc + 1].tasks) = 0 THEN 0
                        ELSE IF si < Len(new[sc + 1].tasks) THEN si
                        ELSE Len(new[sc + 1].tasks) - 1
                   /\ OtherProjectsSame(app, app')
                   /\ SavedAll
              ELSE NoEffect]_vars

C10_Witness ==
    /\ status = "run" /\ last.op = "move_task_forward" /\ last.save
    /\ app.selected_column = 0 /\ app.selected_index = 0
    /\ board(app).columns[1].tasks = <<TaskA>>
    /\ board(app).columns[2].tasks = <<TaskC, TaskB>>

(***************************************************************************)
(* SpecProjects: the project list.  The process starts on a file of two    *)
(* projects with boards of two columns and of one, and handles the keys    *)
(* of the project list and of AddingProject, and in the board view the     *)
(* keys that move between columns.                                         *)
(***************************************************************************)
StartProjects == { ProjectsToJson(<<ProjQ, ProjP>>) }

InitProjects ==
    /\ app = AppNewState(<<>>)
    /\ status = "boot"
    /\ config_file \in StartProjects
    /\ old_omarchy_file = Absent
    /\ old_board_file = Absent
    /\ loaded = NoLoad
    /\ last = NoIntent
    /\ build = "unknown"
    /\ faults = 0

NextProjects ==
    \/ AppNew
    \/ KeyLeft \/ KeyRight
    \/ KeyOpenProjectList
    \/ ListEsc \/ ListDown \/ ListUp \/ ListEnter \/ ListAdd \/ ListDelete
    \/ KeyEnter \/ KeyBackspace \/ KeyChar \/ ProjEsc
    \/ Quit

SpecProjects == InitProjects /\ [][NextProjects]_vars

(***************************************************************************)
(* SpecAddTask: adding a task.  The process starts on the same file and    *)
(* handles the keys of AddingTask, the key that deletes a task, the keys   *)
(* that move between columns, and the keys of the project list that        *)
(* select and delete a project.                                            *)
(***************************************************************************)
NextAddTask ==
    \/ AppNew
    \/ KeyLeft \/ KeyRight
    \/ KeyStartAddingTask \/ KeyEnter \/ KeyBackspace \/ KeyChar \/ InputEsc
    \/ KeyDeleteTask
    \/ KeyOpenProjectList
    \/ ListEsc \/ ListDown \/ ListUp \/ ListEnter \/ ListDelete

SpecAddTask == InitProjects /\ [][NextAddTask]_vars

(***************************************************************************)
(* Claims about crashes (checked under SpecAddTask).                       *)
(***************************************************************************)
\* C11: no sequence of intents, dispatched according to the current mode,
\* makes the state machine crash.
C11_NoCrash == status # "panic"

(***************************************************************************)
(* SpecSave: saves that can fail.  The process starts on a file of two     *)
(* projects and handles the keys that move and delete tasks, delete        *)
(* and reorder columns, and select and delete projects; the file           *)
(* system fails up to MaxFaults writes, refusing the write or leaving the  *)
(* file cut short.                                                         *)
(***************************************************************************)
ProjS == [name |-> <<"S">>,
          board |-> [columns |-> << Col(<<"x">>, <<"X">>, <<TaskB>>),
                                    Col(<<"y">>, <<"Y">>, <<>>) >>]]

InitSave ==
    /\ app = AppNewState(<<>>)
    /\ status = "boot"
    /\ config_file = ProjectsToJson(<<ProjP, ProjS>>)
    /\ old_omarchy_file = Absent
    /\ old_board_file = Absent
    /\ loaded = NoLoad
    /\ last = NoIntent
    /\ build = "unknown"
    /\ faults = MaxFaults

NextSave ==
    \/ AppNew
    \/ KeyRight
    \/ KeyMoveTaskForward \/ KeyMoveTaskBackward \/ KeyDeleteTask
    \/ KeyDeleteColumn \/ KeyMoveColumnLeft \/ KeyMoveColumnRight
    \/ KeyOpenProjectList
    \/ ListEsc \/ ListDown \/ ListEnter \/ ListDelete

SpecSave == InitSave /\ [][NextSave]_vars

(***************************************************************************)
(* Claims about saving (checked under SpecSave).                           *)
(***************************************************************************)
\* C12: an intent that changes the project collection calls save(), and
\* after every intent whose save succeeds the current-format file holds
\* exactly the in-memory collection, every project of it.
C12_SaveHoldsAll ==
    [][(status = "run" /\ status' = "run") =>
          /\ app'.projects # app.projects => last'.save
          /\ (last'.save /\ last'.outcome = "ok") =>
                 DocHolds(config_file', app'.projects)]_vars

C12_Witness ==
    /\ status = "run" /\ last.op = "move_task_forward"
    /\ last.save /\ last.outcome = "ok"
    /\ app.current_project = 1
    /\ app.projects = << ProjP,
                         [ProjS EXCEPT !.board.columns[1].tasks = <<>>,
                                       !.board.columns[2].tasks = <<TaskB>>] >>
    /\ DocHolds(config_file, app.projects)

\* C13: when a save fails the persisted file keeps its previous content.
C13_FailedSaveKeepsFile ==
    [][(status = "run" /\ last'.save /\ last'.outcome \in {"denied", "partial"}) =>
          config_file' = config_file]_vars

(***************************************************************************)
(* Claims about adding a task (checked under SpecAddTask).                 *)
(***************************************************************************)
\* C14: submitting in AddingTask with an empty input buffer leaves every
\* column's tasks unchanged, does not write to storage, and returns the
\* mode to Normal.
C14_EmptySubmit ==
    [][(/\ status = "run" /\ last'.op = "submit_input"
        /\ app.input_mode = AddingTask /\ app.input_buffer = <<>>) =>
          /\ status' = "run"
          /\ app'.projects = app.projects
          /\ ~last'.save /\ config_file' = config_file
          /\ app'.input_mode = Normal]_vars

C14_Witness ==
    /\ status = "run" /\ last.op = "submit_input" /\ ~last.save
    /\ app.input_mode = Normal /\ app.input_buffer = <<>>
    /\ app.projects = <<ProjP>> /\ ColumnOk(app)

\* C15: submitting in AddingTask with a non-empty buffer appends exactly one
\* task, with the buffer as title and empty tags and description, at the
\* end of the selected column; sets selected_index to that last position,
\* inside the visible window; leaves the other tasks, columns and projects
\* unchanged; saves; clears the buffer and returns to Normal.
C15_AddTask ==
    [][(/\ status = "run" /\ last'.op = "submit_input"
        /\ app.input_mode = AddingTask /\ app.input_buffer # <<>>) =>
          /\ status' = "run"
          /\ ColumnOk(app)
          /\ LET cols == board(app).columns
                 new == board(app').columns
                 sc == app.selected_column
             IN  /\ Len(new) = Len(cols)
                 /\ new[sc + 1].tasks
                      = Append(cols[sc + 1].tasks,
                               [title |-> app.input_buffer, tags |-> <<>>,
                                description |-> <<>>])
                 /\ \A j \in 1..Len(cols) :
                      /\ new[j].id = cols[j].id /\ new[j].name = cols[j].name
                      /\ j # sc + 1 => new[j] = cols[j]
                 /\ app'.selected_column = sc
                 /\ app'.selected_index = Len(cols[sc + 1].tasks)
                 /\ app'.scroll_offset <= app'.selected_index
                 /\ app'.selected_index < app'.scroll_offset + app'.visible_items
          /\ OtherProjectsSame(app, app')
          /\ SavedAll
          /\ app'.input_buffer = <<>> /\ app'.input_mode = Normal]_vars

(***************************************************************************)
(* Claims about the project list (checked under SpecProjects).             *)
(***************************************************************************)
\* C18: delete_project changes and writes nothing when one project
\* remains; otherwise it removes the highlighted project (index
\* selected_project_index) only, keeps the others in order, leaves
\* selected_project_index and current_project below the new project count,
\* and saves.
C18_DeleteProject ==
    [][(status = "run" /\ last'.op = "delete_project") =>
          IF Len(app.projects) <= 1
          THEN NoEffect
          ELSE /\ status' = "run"
               /\ IsRemoval(app'.projects, app.projects,
                            app.selected_project_index)
               /\ app'.selected_project_index < Len(app'.projects)
               /\ app'.current_project < Len(app'.projects)
               /\ SavedAll]_vars

C18_Witness ==
    /\ status = "run" /\ last.op = "delete_project" /\ last.save
    /\ app.projects = <<ProjQ, ProjectNew(<<"a">>)>>
    /\ app.selected_project_index = 1 /\ app.current_project = 1

\* C19: select_project sets current_project to selected_project_index,
\* sets selected_column, selected_index and scroll_offset to 0, returns the
\* mode to Normal, and changes neither the projects nor the file.
C19_SelectProject ==
    [][(status = "run" /\ last'.op = "select_project") =>
          /\ status' = "run"
          /\ app'.current_project = app.selected_project_index
          /\ app'.selected_column = 0
          /\ app'.selected_index = 0
          /\ app'.scroll_offset = 0
          /\ app'.input_mode = Normal
          /\ app'.projects = app.projects
          /\ app'.selected_project_index = app.selected_project_index
          /\ config_file' = config_file /\ ~last'.save]_vars

C19_Witness ==
    /\ status = "run" /\ last.op = "select_project"
    /\ app.projects = <<ProjQ, ProjP>>
    /\ app.current_project = 1 /\ app.selected_project_index = 1
    /\ app.selected_column = 0 /\ app.input_mode = Normal

(***************************************************************************)
(* SpecTask: the task detail view.  The process starts on a file of one    *)
(* project with a column of two tasks, the first with a tag and a          *)
(* description, and an empty column, and handles the keys that move        *)
(* between the columns, add a tag, open the task, edit its title and       *)
(* description and remove a tag, and the help view.                        *)
(***************************************************************************)
ProjB == [name |-> <<"T">>,
          board |-> [columns |-> << Col(<<"x">>, <<"X">>, <<TaskB, TaskA>>),
                                    Col(<<"y">>, <<"Y">>, <<>>) >>]]

InitTask ==
    /\ app = AppNewState(<<>>)
    /\ status = "boot"
    /\ config_file = ProjectsToJson(<<ProjB>>)
    /\ old_omarchy_file = Absent
    /\ old_board_file = Absent
    /\ loaded = NoLoad
    /\ last = NoIntent
    /\ build = "unknown"
    /\ faults = 0

NextTask ==
    \/ AppNew
    \/ KeyLeft \/ KeyRight
    \/ KeyStartAddingTag \/ KeyEnter \/ KeyBackspace \/ KeyChar \/ InputEsc
    \/ KeyOpenTask \/ ViewEsc \/ ViewTab \/ ViewEnter \/ ViewDigit
    \/ TitleEsc \/ DescEnter \/ DescEsc
    \/ KeyShowHelp \/ HelpClose
    \/ Quit

SpecTask == InitTask /\ [][NextTask]_vars

(***************************************************************************)
(* Claims about tags and cancelling (checked under SpecTask).              *)
(***************************************************************************)
NoDuplicates(seq) == \A i, j \in 1..Len(seq) : seq[i] = seq[j] => i = j

NoDuplicateTags(a) ==
    \A p \in 1..Len(a.projects) :
      \A c \in 1..Len(a.projects[p].board.columns) :
        \A t \in 1..Len(a.projects[p].board.columns[c].tasks) :
          NoDuplicates(a.projects[p].board.columns[c].tasks[t].tags)

\* C16: adding a tag the task already has leaves its tag sequence
\* unchanged, adding a new tag appends it after the existing ones, and no
\* task's tag sequence ever contains a duplicate.
C16_TagsOrderedSet ==
    [][/\ NoDuplicateTags(app')
       /\ (/\ status = "run" /\ last'.op = "submit_input"
           /\ app.input_mode = AddingTag /\ app.input_buffer # <<>>) =>
             /\ status' = "run"
             /\ app'.selected_column = app.selected_column
             /\ app'.selected_index = app.selected_index
             /\ TaskAt(app').tags =
                  IF \E i \in 1..Len(TaskAt(app).tags) :
                        TaskAt(app).tags[i] = app.input_buffer
                  THEN TaskAt(app).tags
                  ELSE TaskAt(app).tags \o <<app.input_buffer>>
             /\ app'.projects =
                  SetTask(app, [TaskAt(app) EXCEPT !.tags = TaskAt(app').tags]).projects
      ]_vars

C16_Witness ==
    /\ status = "run" /\ last.op = "submit_input" /\ last.save
    /\ app.input_mode = Normal /\ app.selected_index = 0
    /\ TaskAt(app).tags = << <<"x">>, <<"a">> >>

\* C17: from every input-capturing mode the cancel intent (Esc) clears the
\* input buffer, returns to Normal - or to ViewingTask from EditingTitle
\* and EditingDescription - and changes neither the projects nor the file.
C17_Cancel ==
    [][(status = "run" /\ last'.op \in {"cancel_input", "esc"}) =>
          /\ status' = "run"
          /\ app'.input_buffer = <<>>
          /\ app'.input_mode =
                IF app.input_mode \in {EditingTitle, EditingDescription}
                THEN ViewingTask ELSE Normal
          /\ app'.projects = app.projects
          /\ config_file' = config_file /\ ~last'.save]_vars

(***************************************************************************)
(* SpecScroll: scrolling.  The process starts on a file of one project     *)
(* with a column of LongColumn tasks and a short one, in a terminal that   *)
(* shows five cards, and handles the navigation keys, the key that         *)
(* deletes a task, and a change of the terminal height.                    *)
(***************************************************************************)
Numbered(n) == [i \in 1..n |-> NewTask(<<ToString(i)>>)]

ProjLong == [name |-> <<"L">>,
             board |-> [columns |-> << Col(<<"x">>, <<"X">>, Numbered(LongColumn)),
                                       Col(<<"y">>, <<"Y">>, <<TaskA, TaskB>>) >>]]

\* Rows of the column area: room for no card, for two and for five.
Heights == {3, 11, 29}

\* An iteration of run_app on a resize event: draw only.  The board view
\* recomputes visible_items for the selected column from the rows of its
\* area; the other views leave it alone.
Resize ==
    /\ status = "run"
    /\ app.input_mode \in {Normal, AddingTask, AddingTag}
    /\ IF DrawPanics(app)
       THEN /\ status' = "panic"
            /\ UNCHANGED app
       ELSE /\ status' = status
            /\ \E height \in Heights :
                 app' = IF ColumnOk(app)
                        THEN set_visible_items(app, height, 5, 1)
                        ELSE app
    /\ last' = [op |-> "draw", save |-> FALSE, outcome |-> "none"]
    /\ UNCHANGED <<config_file, old_omarchy_file, old_board_file, loaded,
                   build, faults>>

InitScroll ==
    /\ app = AppNewState(<<>>)
    /\ status = "boot"
    /\ config_file = ProjectsToJson(<<ProjLong>>)
    /\ old_omarchy_file = Absent
    /\ old_board_file = Absent
    /\ loaded = NoLoad
    /\ last = NoIntent
    /\ build = "unknown"
    /\ faults = 0

NextScroll ==
    \/ AppNew
    \/ KeyUp \/ KeyDown \/ KeyLeft \/ KeyRight
    \/ KeyDeleteTask
    \/ Resize

SpecScroll == InitScroll /\ [][NextScroll]_vars

(***************************************************************************)
(* Claims about scrolling (checked under SpecScroll).                      *)
(***************************************************************************)
\* A navigation key was handled and left a selected task, with room for
\* at least one card.
Navigated ==
    /\ status = "run" /\ status' = "run"
    /\ last'.op \in {"move_up", "move_down", "move_left", "move_right"}
    /\ app'.visible_items >= 1
    /\ ColumnOk(app') /\ column_len(app') > 0

max_scroll(a) ==
    IF column_len(a) > a.visible_items THEN column_len(a) - a.visible_items ELSE 0

Min(x, y) == IF x < y THEN x ELSE y

TaskSelected(a) == ColumnOk(a) /\ TaskInRange(a)

\* C21: move_task_backward on the first column, or with no task at the
\* selected index, changes nothing and writes nothing; otherwise the
\* selected task leaves its column and becomes the last task of the
\* previous column, every other task and column stays as it was, the
\* selection stays on the source column with selected_index re-clamped, and
\* it saves.
C21_MoveTaskBackward ==
    [][(status = "run" /\ last'.op = "move_task_backward") =>
          /\ status' = "run"
          /\ IF app.selected_column > 0 /\ TaskSelected(app)
             THEN LET cols == board(app).columns
                      new == board(app').columns
                      sc == app.selected_column
                      si == app.selected_index
                  IN  /\ Len(new) = Len(cols)
                      /\ IsRemoval(new[sc + 1].tasks, cols[sc + 1].tasks, si)
                      /\ new[sc].tasks
                           = Append(cols[sc].tasks, cols[sc + 1].tasks[si + 1])
                      /\ \A j \in 1..Len(cols) :
                           /\ new[j].id = cols[j].id /\ new[j].name = cols[j].name
                           /\ j \notin {sc, sc + 1} => new[j] = cols[j]
                      /\ app'.selected_column = sc
                      /\ app'.selected_index =
                           IF Len(new[sc + 1].tasks) = 0 THEN 0
                           ELSE IF si < Len(new[sc + 1].tasks) THEN si
                           ELSE Len(new[sc + 1].tasks) - 1
                      /\ OtherProjectsSame(app, app')
                      /\ SavedAll
             ELSE NoEffect]_vars

\* C22: delete_task with a task at the selected index removes that task
\* only, keeps the remaining tasks of the column in order and every other
\* column as it was, sets selected_index to the smaller of the old index
\* and the new length minus one, or to 0 when the column is left empty, and
\* saves; with no task at the selected index it changes and writes nothing.
C22_DeleteTask ==
    [][(status = "run" /\ last'.op = "delete_task") =>
          /\ status' = "run"
          /\ IF TaskSelected(app)
             THEN LET cols == board(app).columns
                      new == board(app').columns
                      sc == app.selected_column
                      si == app.selected_index
                  IN  /\ Len(new) = Len(cols)
                      /\ IsRemoval(new[sc + 1].tasks, cols[sc + 1].tasks, si)
                      /\ \A j \in 1..Len(cols) :
                           /\ new[j].id = cols[j].id /\ new[j].name = cols[j].name
                           /\ j # sc + 1 => new[j] = cols[j]
                      /\ app'.selected_column = sc
                      /\ app'.selected_index =
                           IF Len(new[sc + 1].tasks) = 0 THEN 0
                           ELSE Min(si, Len(new[sc + 1].tasks) - 1)
                      /\ OtherProjectsSame(app, app')
                      /\ SavedAll
             ELSE NoEffect]_vars

(***************************************************************************)
(* Claims about the tags, the title and the description of a task          *)
(* (checked under SpecTask).                                               *)
(***************************************************************************)
\* Nothing was written: the file is as it was and save() was not called.
NoWrite == config_file' = config_file /\ ~last'.save

\* The projects of b are those of a but for the tags of the selected task.
OnlyTagsChanged(a, b) ==
    b.projects = SetTask(a, [TaskAt(a) EXCEPT !.tags = TaskAt(b).tags]).projects

\* C23: start_adding_tag enters AddingTag, with an empty buffer, only when a
\* task exists at the selection; otherwise the mode stays Normal and
\* nothing changes.  A submit in AddingTag with a non-empty buffer makes the
\* buffer a tag of the selected task and of no other, saves and returns to
\* Normal; a submit with an empty buffer changes no task and writes nothing.
C23_AddingTag ==
    [][/\ (status = "run" /\ last'.op = "start_adding_tag") =>
             /\ status' = "run"
             /\ app' = IF TaskSelected(app)
                       THEN [app EXCEPT !.input_mode = AddingTag,
                                        !.input_buffer = <<>>]
                       ELSE app
             /\ app'.input_mode = AddingTag => TaskSelected(app')
             /\ NoWrite
       /\ (/\ status = "run" /\ last'.op = "submit_input"
           /\ app.input_mode = AddingTag) =>
             /\ status' = "run"
             /\ IF app.input_buffer # <<>>
                THEN /\ TaskSelected(app)
                     /\ TaskAt(app').tags \in
                          { TaskAt(app).tags, Append(TaskAt(app).tags, app.input_buffer) }
                     /\ Contains(TaskAt(app').tags, app.input_buffer)
                     /\ OnlyTagsChanged(app, app')
                     /\ SavedAll
                     /\ app'.input_mode = Normal
                ELSE app'.projects = app.projects /\ NoWrite
             /\ app'.selected_column = app.selected_column
             /\ app'.selected_index = app.selected_index
      ]_vars

C23_Witness ==
    /\ status = "run" /\ last.op = "submit_input" /\ last.save
    /\ last.outcome = "ok" /\ DocHolds(config_file, app.projects)
    /\ app.input_mode = Normal
    /\ board(app).columns[1].tasks
         = << [TaskB EXCEPT !.tags = << <<"x">>, <<"a">> >>], TaskA >>

\* C24: entering EditingTitle puts the title of the selected task into the
\* buffer; a submit with a non-empty buffer makes the buffer the title of
\* that task and saves; a submit with an empty buffer leaves the title as
\* it was and writes nothing; either way the mode becomes ViewingTask, the
\* buffer is cleared, and the tags and the description of the task stay.
C24_EditingTitle ==
    [][/\ (/\ status = "run" /\ last'.op = "start_editing"
           /\ app.focused_field = "Title") =>
             /\ status' = "run"
             /\ TaskSelected(app)
             /\ app' = [app EXCEPT !.input_mode = EditingTitle,
                                   !.input_buffer = TaskAt(app).title]
             /\ NoWrite
       /\ (/\ status = "run" /\ last'.op = "submit_input"
           /\ app.input_mode = EditingTitle) =>
             /\ status' = "run"
             /\ TaskSelected(app)
             /\ IF app.input_buffer # <<>>
                THEN /\ TaskAt(app') = [TaskAt(app) EXCEPT !.title = app.input_buffer]
                     /\ app'.projects = SetTask(app, TaskAt(app')).projects
                     /\ SavedAll
                ELSE app'.projects = app.projects /\ NoWrite
             /\ app'.input_mode = ViewingTask
             /\ app'.input_buffer = <<>>
             /\ app'.selected_column = app.selected_column
             /\ app'.selected_index = app.selected_index
      ]_vars

C24_Witness ==
    /\ status = "run" /\ last.op = "submit_input" /\ last.save
    /\ app.input_mode = ViewingTask /\ app.input_buffer = <<>>
    /\ app.focused_field = "Title"
    /\ TaskAt(app) = [TaskB EXCEPT !.title = <<"a">>]
    /\ DocHolds(config_file, app.projects)

\* C25: a submit in EditingDescription makes the buffer the description of
\* the selected task, an empty buffer too (the description is cleared),
\* saves, sets the mode to ViewingTask and clears the buffer; the title and
\* the tags of the task stay.  Esc is the key that submits in this mode.
C25_EditingDescription ==
    [][(/\ status = "run" /\ last'.op = "esc"
        /\ app.input_mode = EditingDescription) =>
          /\ status' = "run"
          /\ TaskSelected(app)
          /\ TaskAt(app') = [TaskAt(app) EXCEPT !.description = app.input_buffer]
          /\ app'.projects = SetTask(app, TaskAt(app')).projects
          /\ SavedAll
          /\ app'.input_mode = ViewingTask
          /\ app'.input_buffer = <<>>
          /\ app'.selected_column = app.selected_column
          /\ app'.selected_index = app.selected_index]_vars

C25_Witness ==
    /\ status = "run" /\ last.op = "esc" /\ last.save
    /\ app.input_mode = ViewingTask /\ app.input_buffer = <<>>
    /\ app.focused_field = "Description"
    /\ TaskAt(app) = [TaskB EXCEPT !.description = <<>>]
    /\ DocHolds(config_file, app.projects)

\* The step handled digit key d in the task detail view.
DigitStep(d) ==
    /\ status = "run" /\ app.input_mode = ViewingTask
    /\ last'.op = "digit_" \o ToString(d)

\* The tag at 0-based index i of the selected task went, its other tags
\* stayed in order, nothing else changed, and it was saved.
TagRemoved(i) ==
    /\ IsRemoval(TaskAt(app').tags, TaskAt(app).tags, i)
    /\ OnlyTagsChanged(app, app')
    /\ app' = [app EXCEPT !.projects = app'.projects]
    /\ SavedAll

\* C26 as stated: in ViewingTask digit d removes the tag at index d - 1 of
\* the selected task, keeps the order of the other tags and saves; when
\* d - 1 is not below the number of tags nothing changes and nothing is
\* written; the mode stays ViewingTask.
C26_Original ==
    [][\A d \in Digits : DigitStep(d) =>
          /\ status' = "run"
          /\ IF d - 1 < Len(TaskAt(app).tags)
             THEN TagRemoved(d - 1)
             ELSE NoEffect
          /\ app'.input_mode = ViewingTask]_vars

\* C26, amended: digit d removes the tag at index d - 1 when the focused
\* field is Tags; with the focus on the title or the description, or with
\* d - 1 not below the number of tags, nothing changes and nothing is
\* written.
C26_RemoveTag ==
    [][\A d \in Digits : DigitStep(d) =>
          /\ status' = "run"
          /\ IF app.focused_field = "Tags" /\ d - 1 < Len(TaskAt(app).tags)
             THEN TagRemoved(d - 1)
             ELSE NoEffect
          /\ app'.input_mode = ViewingTask]_vars

C26_Witness ==
    /\ status = "run" /\ last.op = "digit_2" /\ last.save
    /\ app.input_mode = ViewingTask /\ app.focused_field = "Tags"
    /\ TaskAt(app) = TaskB
    /\ DocHolds(config_file, app.projects)

(***************************************************************************)
(* SpecColumns: adding a column.  The process starts on the file of        *)
(* SpecTask, a board of a column with tasks and an empty column, and       *)
(* handles the keys that move between columns, add a column, delete one    *)
(* and reorder them.                                                       *)
(***************************************************************************)
NextColumns ==
    \/ AppNew
    \/ KeyLeft \/ KeyRight
    \/ KeyStartAddingColumn \/ ColumnInput(AddingColumn) \/ ColumnEsc
    \/ KeyDeleteColumn \/ KeyMoveColumnLeft \/ KeyMoveColumnRight

SpecColumns == InitTask /\ [][NextColumns]_vars

(***************************************************************************)
(* Claims about adding a column (checked under SpecColumns).               *)
(***************************************************************************)
\* The id of a column named name: lower case, "_" for every space.
SlugOf(name) ==
    [i \in 1..Len(name) |->
        CASE name[i] = " " -> "_" [] name[i] = "A" -> "a" [] OTHER -> name[i]]

\* C27: a submit in AddingColumn with a non-empty buffer appends one empty
\* column at the end of the current board, its name the buffer and its id
\* the name in lower case with "_" for every space; the columns there
\* were, their order and the selection stay; it saves and returns to
\* Normal.  A submit with an empty buffer adds no column and writes
\* nothing.
C27_AddingColumn ==
    [][(/\ status = "run" /\ last'.op = "submit_input"
        /\ app.input_mode = AddingColumn) =>
          /\ status' = "run"
          /\ IF app.input_buffer # <<>>
             THEN /\ board(app').columns
                       = Append(board(app).columns,
                                [id |-> SlugOf(app.input_buffer),
                                 name |-> app.input_buffer, tasks |-> <<>>])
                  /\ OtherProjectsSame(app, app')
                  /\ SavedAll
                  /\ app'.input_mode = Normal
             ELSE app'.projects = app.projects /\ NoWrite
          /\ app'.selected_column = app.selected_column
          /\ app'.selected_index = app.selected_index
          /\ app'.scroll_offset = app.scroll_offset]_vars

C27_Witness ==
    /\ status = "run" /\ last.op = "submit_input" /\ last.save
    /\ app.input_mode = Normal /\ app.input_buffer = <<>>
    /\ board(app).columns = << Col(<<"x">>, <<"X">>, <<TaskB, TaskA>>),
                               Col(<<"a">>, <<"A">>, <<>>),
                               Col(<<"_">>, <<" ">>, <<>>) >>
    /\ DocHolds(config_file, app.projects)

(***************************************************************************)
(* SpecModes: every mode, and renaming a column.  The process starts on    *)
(* the file of SpecTask and handles the keys that enter each of the        *)
(* modes and the keys that cancel or close them, the keys that move        *)
(* between tasks, columns and projects and reorder the columns, and in     *)
(* RenamingColumn the keys that edit and submit the name.                  *)
(***************************************************************************)
NextModes ==
    \/ AppNew
    \/ KeyUp \/ KeyDown \/ KeyLeft \/ KeyRight
    \/ KeyMoveColumnLeft \/ KeyMoveColumnRight
    \/ KeyStartAddingTask \/ KeyStartAddingTag \/ InputEsc
    \/ KeyOpenTask \/ ViewTab \/ ViewEnter \/ ViewEsc \/ TitleEsc \/ DescEsc
    \/ KeyShowHelp \/ HelpClose
    \/ KeyOpenProjectList \/ ListEsc \/ ListUp \/ ListDown \/ ListEnter
    \/ ListAdd \/ ProjEsc
    \/ KeyStartAddingColumn \/ KeyStartRenamingColumn \/ ColumnEsc
    \/ ColumnInput(RenamingColumn)

SpecModes == InitTask /\ [][NextModes]_vars

(***************************************************************************)
(* Claims about renaming a column (checked under SpecModes).               *)
(***************************************************************************)
\* The columns of b are those of a but for the name of the selected one.
OnlyNameChanged(a, b) ==
    b.projects = SetBoard(a, [board(a) EXCEPT
                     !.columns[a.selected_column + 1].name =
                         board(b).columns[a.selected_column + 1].name]).projects

\* The column of the file that holds tasks has id "x" and the empty one "y".
IdsAsCreated(a) ==
    \A j \in 1..Len(board(a).columns) :
        board(a).columns[j].id
            = IF board(a).columns[j].tasks # <<>> THEN <<"x">> ELSE <<"y">>

\* start_renaming_column puts the name of the selected column into the
\* buffer and enters RenamingColumn.
RenameStarts ==
    (status = "run" /\ last'.op = "start_renaming_column") =>
        /\ status' = "run"
        /\ app' = IF ColumnOk(app)
                  THEN [app EXCEPT
                           !.input_buffer =
                               board(app).columns[app.selected_column + 1].name,
                           !.input_mode = RenamingColumn]
                  ELSE app
        /\ NoWrite

\* The submit made the buffer the name of the selected column and saved.
Renamed ==
    /\ ColumnOk(app)
    /\ board(app').columns[app.selected_column + 1].name = app.input_buffer
    /\ OnlyNameChanged(app, app')
    /\ app' = [app EXCEPT !.projects = app'.projects,
                          !.input_mode = Normal, !.input_buffer = <<>>]
    /\ SavedAll

RenameSubmit == status = "run" /\ last'.op = "submit_input"
                /\ app.input_mode = RenamingColumn

\* C28 as stated: start_renaming_column pre-fills the buffer with the name
\* of the selected column; a submit in RenamingColumn overwrites the name
\* of that column only - its id, its tasks and every other column stay -
\* saves and returns to Normal; no rename or reorder changes a column's id.
C28_Original ==
    [][/\ RenameStarts
       /\ RenameSubmit => (status' = "run" /\ Renamed)
       /\ status' = "run" => IdsAsCreated(app')]_vars

\* C28, amended: the submit overwrites the name and saves when the buffer
\* is not empty; with an empty buffer it changes and writes nothing and
\* returns to Normal.
C28_RenamingColumn ==
    [][/\ RenameStarts
       /\ RenameSubmit =>
            /\ status' = "run"
            /\ IF app.input_buffer # <<>>
               THEN Renamed
               ELSE /\ app' = [app EXCEPT !.input_mode = Normal]
                    /\ NoWrite
       /\ status' = "run" => IdsAsCreated(app')]_vars

C28_Witness ==
    /\ status = "run" /\ last.op = "submit_input" /\ last.save
    /\ app.input_mode = Normal /\ app.selected_column = 0
    /\ board(app).columns = << Col(<<"y">>, <<" ">>, <<>>),
                               Col(<<"x">>, <<"A">>, <<TaskB, TaskA>>) >>
    /\ DocHolds(config_file, app.projects)

(***************************************************************************)
(* Claim about the order of the columns (checked under SpecSave).          *)
(***************************************************************************)

\* Columns new are columns cols with the neighbours at 0-based i and i + 1
\* exchanged whole, every other column in its place.
Exchanged(new, cols, i) ==
    /\ Len(new) = Len(cols)
    /\ new[i + 1] = cols[i + 2]
    /\ new[i + 2] = cols[i + 1]
    /\ \A j \in 1..Len(cols) : j \notin {i + 1, i + 2} => new[j] = cols[j]
    /\ {new[j] : j \in 1..Len(new)} = {cols[j] : j \in 1..Len(cols)}

\* The step moved the selected column to 0-based index to, the selection
\* with it, and saved.
ColumnMovedTo(to) ==
    /\ Exchanged(board(app').columns, board(app).columns,
                 Min(to, app.selected_column))
    /\ app'.selected_column = to
    /\ board(app').columns[to + 1] = board(app).columns[app.selected_column + 1]
    /\ app'.selected_index = app.selected_index
    /\ OtherProjectsSame(app, app')
    /\ SavedAll

\* C29: move_column_left / move_column_right exchanges the selected column
\* with its left / right neighbour, moves selected_column with it, leaves
\* every column's id, name and tasks and the set of columns as they were,
\* and saves; on the first / last column, or with no column at the
\* selection, it changes nothing and writes nothing.
C29_MoveColumn ==
    [][(status = "run" /\ last'.op \in {"move_column_left", "move_column_right"}) =>
          /\ status' = "run"
          /\ IF last'.op = "move_column_left"
             THEN IF ColumnOk(app) /\ app.selected_column > 0
                  THEN ColumnMovedTo(app.selected_column - 1)
                  ELSE NoEffect
             ELSE IF ColumnOk(app)
                       /\ app.selected_column < Len(board(app).columns) - 1
                  THEN ColumnMovedTo(app.selected_column + 1)
                  ELSE NoEffect]_vars

(***************************************************************************)
(* Claim about leaving the modes (checked under SpecModes).                *)
(***************************************************************************)
InputModes == {Normal, AddingTask, AddingTag, ViewingTask, EditingTitle,
               EditingDescription, ViewingHelp, ProjectList, AddingProject,
               AddingColumn, RenamingColumn}

\* What the cancel/close key of the mode of a does: the Esc arm of the mode's
\* handler.  The board view binds nothing to Esc; the two column modes
\* cancel as ColumnEsc does.
CloseOf(a) ==
    CASE a.input_mode \in {AddingTask, AddingTag, AddingColumn, RenamingColumn}
           -> cancel_input(a)
      [] a.input_mode \in {ViewingTask, ViewingHelp, ProjectList}
           -> close_view(a)
      [] a.input_mode = EditingTitle
           -> Ret([a EXCEPT !.input_mode = ViewingTask, !.input_buffer = <<>>])
      [] a.input_mode = EditingDescription
           -> submit_input(a)
      [] a.input_mode = AddingProject
           -> Ret([a EXCEPT !.input_mode = ProjectList, !.input_buffer = <<>>])
      [] OTHER -> Ret(a)

\* The mode a cancel/close leads to first.
Via(mode) ==
    CASE mode \in {EditingTitle, EditingDescription} -> ViewingTask
      [] mode = AddingProject -> ProjectList
      [] OTHER -> Normal

\* One cancel/close in a leads to Via of its mode, a second one to Normal,
\* neither panics.
BackInTwo(a) ==
    LET r1 == CloseOf(a)
        r2 == CloseOf(r1.app)
    IN  /\ a.input_mode \in InputModes
        /\ ~r1.panic /\ r1.app.input_mode = Via(a.input_mode)
        /\ ~r2.panic /\ r2.app.input_mode = Normal

CloseOps == {"cancel_input", "close_view", "esc"}

\* C30: the machine starts in Normal, and from every state of a run, in
\* each of the eleven modes, at most two cancel/close intents lead back to
\* Normal: the editing modes by way of ViewingTask, AddingProject by way of
\* ProjectList, every other mode at once.  Every cancel/close key does what
\* CloseOf says.
C30_NoTerminalMode ==
    [][/\ (status # "run" /\ status' = "run") => app'.input_mode = Normal
       /\ status' = "run" => BackInTwo(app')
       /\ (status = "run" /\ last'.op \in CloseOps) =>
              status' = "run" /\ app' = CloseOf(app).app]_vars

\* Esc in EditingDescription has stored the text and left the task view
\* open: one more close leads to Normal.
C30_Witness ==
    /\ status = "run"
    /\ last.op = "esc" /\ last.save
    /\ app.input_mode = ViewingTask
    /\ CloseOf(app).app.input_mode = Normal

(***************************************************************************)
(* Claim about opening the project list (checked under SpecProjects).      *)
(***************************************************************************)

\* C31: the open-project-list intent in Normal sets the mode to ProjectList
\* and the highlight to the current project and changes nothing else; in
\* any other mode it changes nothing; it never writes.
C31_OpenProjectList ==
    [][(status = "run" /\ last'.op = "open_project_list") =>
          /\ status' = "run"
          /\ NoWrite
          /\ IF app.input_mode = Normal
             THEN app' = [app EXCEPT
                             !.input_mode = ProjectList,
                             !.selected_project_index = app.current_project]
             ELSE app' = app]_vars

\* The list was opened on the second project, with the highlight on it.
C31_Witness ==
    /\ status = "run"
    /\ last.op = "open_project_list"
    /\ app.input_mode = ProjectList
    /\ app.current_project = 1
    /\ app.selected_project_index = 1

(***************************************************************************)
(* SpecMoves: tasks added, moved and deleted.  The process starts on the   *)
(* file of two projects and handles the keys that select a task, add one,  *)
(* move it forward and backward and delete it, delete a column, and        *)
(* select and delete a project.                                            *)
(***************************************************************************)
NextMoves ==
    \/ AppNew
    \/ KeyDown \/ KeyLeft \/ KeyRight
    \/ KeyStartAddingTask \/ KeyEnter \/ KeyChar \/ InputEsc
    \/ KeyMoveTaskForward \/ KeyMoveTaskBackward \/ KeyDeleteTask
    \/ KeyDeleteColumn
    \/ KeyOpenProjectList \/ ListEsc \/ ListDown \/ ListEnter \/ ListDelete

SpecMoves == InitProjects /\ [][NextMoves]_vars

(***************************************************************************)
(* Claim about the tasks of a board (checked under SpecMoves).             *)
(***************************************************************************)
CountIn(tasks, t) == Cardinality({i \in 1..Len(tasks) : tasks[i] = t})

\* How often task t occurs in the columns: the multiset of the tasks.
RECURSIVE Occurrences(_, _)
Occurrences(columns, t) ==
    IF columns = <<>> THEN 0
    ELSE CountIn(Head(columns).tasks, t) + Occurrences(Tail(columns), t)

TasksOf(columns) ==
    UNION {{columns[c].tasks[i] : i \in 1..Len(columns[c].tasks)} :
              c \in 1..Len(columns)}

SameMultiset(new, cols) ==
    \A t \in TasksOf(new) \cup TasksOf(cols) :
        Occurrences(new, t) = Occurrences(cols, t)

\* The step took the selected task out of its column and put it into the
\* column at 0-based index to, and touched no other column.
TaskWentTo(to) ==
    LET cols == board(app).columns
        new == board(app').columns
        from == app.selected_column
        t == TaskAt(app)
    IN  /\ Len(new) = Len(cols)
        /\ CountIn(new[to + 1].tasks, t) = CountIn(cols[to + 1].tasks, t) + 1
        /\ CountIn(new[from + 1].tasks, t) = CountIn(cols[from + 1].tasks, t) - 1
        /\ Len(new[to + 1].tasks) = Len(cols[to + 1].tasks) + 1
        /\ Len(new[from + 1].tasks) = Len(cols[from + 1].tasks) - 1
        /\ \A j \in 1..Len(cols) : j \notin {from + 1, to + 1} => new[j] = cols[j]

\* The step changed the number of tasks of the i-th project by d.
CountChange(i) ==
    TaskCount(app'.projects[i].board.columns)
        - TaskCount(app.projects[i].board.columns)

\* C32: a task is in one column at a time.  move_task_forward and
\* move_task_backward leave the multiset of the tasks of the board as it
\* was, and a task they move is then in the destination and no longer in
\* its source; over every intent the number of tasks of a board changes
\* only by +1 on a non-empty submit in AddingTask and by -1 on delete_task,
\* both on the board of the current project; a deleted project takes its
\* board with it, a new project comes with a board without tasks, and
\* either leaves the other boards as they were.
C32_TaskInOneColumn ==
    [][status = "run" =>
          /\ (last'.op \in {"move_task_forward", "move_task_backward"}
                 /\ BoardOk(app)) =>
                /\ OtherProjectsSame(app, app')
                /\ SameMultiset(board(app').columns, board(app).columns)
                /\ last'.save =>
                      TaskWentTo(IF last'.op = "move_task_forward"
                                 THEN app.selected_column + 1
                                 ELSE app.selected_column - 1)
          /\ IF Len(app'.projects) = Len(app.projects)
             THEN \A i \in 1..Len(app.projects) :
                    /\ CountChange(i) \in {-1, 0, 1}
                    /\ CountChange(i) = 1 =>
                          /\ last'.op = "submit_input"
                          /\ app.input_mode = AddingTask
                          /\ app.input_buffer # <<>>
                          /\ i = app.current_project + 1
                    /\ CountChange(i) = -1 =>
                          /\ last'.op = "delete_task"
                          /\ i = app.current_project + 1
             ELSE IF last'.op = "delete_project"
             THEN app'.projects
                      = RemoveAt(app.projects, app.selected_project_index)
             ELSE /\ last'.op = "submit_input" /\ app.input_mode = AddingProject
                  /\ Len(app'.projects) = Len(app.projects) + 1
                  /\ SubSeq(app'.projects, 1, Len(app.projects)) = app.projects
                  /\ TaskCount(app'.projects[Len(app'.projects)].board.columns)
                       = 0]_vars

\* A task was deleted from the first column, a new one added to it and
\* moved to the second column; the other task stayed behind.
C32_Witness ==
    /\ status = "run"
    /\ last.op = "move_task_forward" /\ last.save
    /\ Len(app.projects) = 2
    /\ app.projects[1].board.columns[1].tasks = <<TaskA>>
    /\ app.projects[1].board.columns[2].tasks = <<NewTask(<<"a">>)>>

(***************************************************************************)
(* Claims about the projects and the selection (checked under              *)
(* SpecProjects).                                                          *)
(***************************************************************************)

\* C33: in the board view, after any sequence of intents, selected_column
\* is less than the number of columns of the board of the current project,
\* and selected_index is less than the number of tasks of the selected
\* column, or 0 when that column is empty.
C33_SelectionInRange ==
    (status = "run" /\ app.input_mode = Normal) => ValidSelection(app)

\* C34: delete_project on a highlighted project that is not the current
\* one leaves the current project the project it was, with its name and
\* its board, wherever the deleted project sat in the list.
C34_CurrentProjectStays ==
    [][(/\ status = "run" /\ last'.op = "delete_project"
        /\ Len(app.projects) > 1
        /\ app.current_project < Len(app.projects)
        /\ app.selected_project_index # app.current_project) =>
          /\ status' = "run"
          /\ app'.current_project < Len(app'.projects)
          /\ app'.projects[app'.current_project + 1]
               = app.projects[app.current_project + 1]]_vars

\* C35: in every state of a run there is at least one project, and
\* current_project and selected_project_index are less than the number of
\* projects.
C35_ProjectIndicesInRange ==
    status = "run" =>
        /\ Len(app.projects) >= 1
        /\ app.current_project < Len(app.projects)
        /\ app.selected_project_index < Len(app.projects)

(***************************************************************************)
(* Claim about the task the task modes work on (checked under SpecTask).   *)
(***************************************************************************)
TaskModes == {AddingTag, ViewingTask, EditingTitle, EditingDescription}

\* The two boards have the same columns with the same tasks in the same
\* places, but for the fields of the task at 0-based index si of column sc.
SameButTask(new, cols, sc, si) ==
    /\ Len(new) = Len(cols)
    /\ \A j \in 1..Len(cols) :
         /\ new[j].id = cols[j].id /\ new[j].name = cols[j].name
         /\ Len(new[j].tasks) = Len(cols[j].tasks)
         /\ \A k \in 1..Len(cols[j].tasks) :
              (j # sc + 1 \/ k # si + 1) => new[j].tasks[k] = cols[j].tasks[k]

\* C36: in AddingTag, ViewingTask, EditingTitle and EditingDescription a
\* task exists at (selected_column, selected_index) of the current board,
\* and no key of these modes removes or moves a task, changes the
\* selection, or changes which project is on display.
C36_TaskModesHaveATask ==
    [][/\ (status' = "run" /\ app'.input_mode \in TaskModes) =>
              TaskSelected(app')
       /\ (status = "run" /\ app.input_mode \in TaskModes) =>
              /\ status' = "run"
              /\ app'.selected_column = app.selected_column
              /\ app'.selected_index = app.selected_index
              /\ OtherProjectsSame(app, app')
              /\ SameButTask(board(app').columns, board(app).columns,
                             app.selected_column, app.selected_index)]_vars

\* The first tag of the open task was removed; the task is still the
\* selected one and its view is still open.
C36_Witness ==
    /\ status = "run"
    /\ last.op = "digit_1" /\ last.save
    /\ app.input_mode = ViewingTask
    /\ app.selected_column = 0 /\ app.selected_index = 0
    /\ TaskAt(app) = [TaskB EXCEPT !.tags = <<>>]

(***************************************************************************)
(* Claim about the input buffer (checked under SpecTask).                  *)
(***************************************************************************)
QuietModes == {Normal, ViewingTask, ViewingHelp, ProjectList}

\* C37: in Normal, ViewingTask, ViewingHelp and ProjectList the input
\* buffer is empty, and a character is typed or taken back only in an
\* input-capturing mode.
C37_QuietModesEmptyBuffer ==
    [][/\ (status' = "run" /\ app'.input_mode \in QuietModes) =>
              app'.input_buffer = <<>>
       /\ (status = "run" /\ last'.op \in {"input_char", "input_backspace"}) =>
              app.input_mode \in InputModes \ QuietModes]_vars

\* Esc in EditingDescription stored the typed text and left the buffer
\* empty in the task view.
C37_Witness ==
    /\ status = "run"
    /\ last.op = "esc" /\ last.save
    /\ app.input_mode = ViewingTask
    /\ app.input_buffer = <<>>
    /\ TaskAt(app).description = <<"a">>

(***************************************************************************)
(* Claim about the intents that navigate or change mode (checked under     *)
(* SpecModes).                                                             *)
(***************************************************************************)
NavigationOps ==
    {"move_up", "move_down", "move_left", "move_right",
     "move_project_up", "move_project_down", "select_project",
     "open_task", "next_field", "show_help", "close_view",
     "open_project_list",
     "start_adding_task", "start_adding_tag", "start_adding_column",
     "start_renaming_column", "start_adding_project", "start_editing",
     "input_char", "input_backspace", "cancel_input"}

\* C38: the intents that only navigate or change mode (the moves of the
\* selection with their update_scroll, the moves in the project list,
\* select_project, open_task, next_field, show_help, close_view,
\* open_project_list, every start_* intent, input_char, input_backspace and
\* cancel_input) change neither the projects nor the file, and do not save.
C38_NavigationKeepsProjects ==
    [][(status = "run" /\ last'.op \in NavigationOps) =>
          /\ app'.projects = app.projects
          /\ config_file' = config_file
          /\ ~last'.save]_vars

\* A character was typed over the name of the first column; the column
\* and the file still hold the old name.
C38_Witness ==
    /\ status = "run"
    /\ last.op = "input_char"
    /\ app.input_mode = RenamingColumn
    /\ app.input_buffer = <<"A">>
    /\ app.projects = <<ProjB>>
    /\ config_file = ProjectsToJson(<<ProjB>>)

(***************************************************************************)
(* Claim about what the intents of a board reach (checked under            *)
(* SpecMoves).                                                             *)
(***************************************************************************)
DigitOps == {"digit_" \o ToString(d) : d \in Digits}

\* The step was an intent on a task or on its tags.
TaskIntent ==
    \/ last'.op \in {"delete_task", "move_task_forward", "move_task_backward"}
    \/ last'.op \in DigitOps
    \/ last'.op = "submit_input"
          /\ app.input_mode \in {AddingTask, AddingTag, EditingTitle}
    \/ last'.op = "esc" /\ app.input_mode = EditingDescription

\* The step was an intent on the columns.
ColumnIntent ==
    \/ last'.op \in {"delete_column", "move_column_left", "move_column_right"}
    \/ last'.op = "submit_input"
          /\ app.input_mode \in {AddingColumn, RenamingColumn}

\* C39: a task, tag or column intent changes the board of the current
\* project only: the other projects, their names, number and order and
\* the name of the current project are as they were; a task or tag intent
\* changes no column but the selected one and, for a move, the neighbour
\* the task goes to.
C39_OnlyCurrentBoard ==
    [][(status = "run" /\ BoardOk(app) /\ (TaskIntent \/ ColumnIntent)) =>
          /\ OtherProjectsSame(app, app')
          /\ TaskIntent =>
                LET cols == board(app).columns
                    new == board(app').columns
                    sc == app.selected_column
                    touched == CASE last'.op = "move_task_forward" -> {sc + 1, sc + 2}
                                 [] last'.op = "move_task_backward" -> {sc, sc + 1}
                                 [] OTHER -> {sc + 1}
                IN  /\ Len(new) = Len(cols)
                    /\ \A j \in 1..Len(cols) : j \notin touched => new[j] = cols[j]]_vars

\* The first task of the second project was deleted while the first
\* project and the other task stayed as they were.
C39_Witness ==
    /\ status = "run"
    /\ last.op = "delete_task" /\ last.save
    /\ app.current_project = 1
    /\ Len(app.projects) = 2
    /\ app.projects[1] = ProjQ
    /\ app.projects[2].name = ProjP.name
    /\ app.projects[2].board.columns[1].tasks = <<>>

(***************************************************************************)
(* Claim about the scroll offset in every state (checked under             *)
(* SpecScroll).                                                            *)
(***************************************************************************)

ScrollClamped(a) == a.scroll_offset <= max_scroll(a)

\* C40: scroll_offset is at most max(0, length of the selected column -
\* visible_items) in every state of a run, not only after a navigation
\* intent: it is so at the start, and every intent that finds it so leaves
\* it so, delete_task and the other intents that shorten or replace the
\* selected column included.
C40_ScrollOffsetClamped ==
    [][/\ (status # "run" /\ status' = "run") => ScrollClamped(app')
       /\ (status = "run" /\ status' = "run" /\ last'.op # "draw"
              /\ ScrollClamped(app)) => ScrollClamped(app')]_vars

====
